---- MODULE Spec2Model ----
(***************************************************************************)
(* A model of the OpenGL scene project: the procedural mesh generator      *)
(* ShapeMeshes (vertex / index synthesis, VAO/VBO upload, draw calls), the *)
(* texture registry and the Render functions of SceneManager, and the      *)
(* camera and input handling of ViewManager.                               *)
(*                                                                         *)
(* Floating point data is kept exact: texture coordinates produced by an   *)
(* integer division are pairs <<numerator, denominator>>, literal table    *)
(* entries are integers in a stated unit, and positions that come out of   *)
(* sin/cos are identified by the loop counters that produce the angle.     *)
(* Byte sizes follow the source (sizeof(float) = 4).                       *)
(***************************************************************************)
EXTENDS Integers, Sequences, FiniteSets, TLC

(***************************************************************************)
(* Bounds of the exploration.                                              *)
(***************************************************************************)
\* number of Load*Mesh calls in one run
MaxLoads == 2
\* LoadSphereMesh is called with latitudeSegments, longitudeSegments in 1..MaxSegments
MaxSegments == 3
\* LoadConeMesh / LoadCylinderMesh are called with numSlices in 2..MaxSlices
MaxSlices == 3
\* LoadTorusMesh is called with mainSegments, tubeSegments in 2..MaxTorusSegments
MaxTorusSegments == 3
\* number of CreateGLTexture calls of one run that do not register a texture
MaxFailedLoads == 2
\* number of times LoadSceneTextures is invoked again on the same SceneManager
MaxReloads == 1
MaxSteps == 3
MaxFrames == 1
\* number of Load*Mesh calls of a run in which every Draw*Mesh may be called
MaxDrawLoads == 1
MaxSceneFailures == 1

(***************************************************************************)
(* Program constants.                                                      *)
(***************************************************************************)
FloatsPerVertex == 3
FloatsPerNormal == 3
FloatsPerUV == 2
SizeofFloat == 4
\* entries of m_textureIDs
NumTextureSlots == 16

VARIABLES
    m_bMemoryLayoutDone,  \* ShapeMeshes::m_bMemoryLayoutDone
    meshes,               \* the GLMesh members of ShapeMeshes, by mesh kind
    gl,                   \* the OpenGL objects and bindings the program touches
    loads,                \* number of Load*Mesh calls made so far
    lastOp,               \* the most recent ShapeMeshes operation and its arguments
    lastDraws,            \* the GL draw calls issued by the most recent operation
    cerr,                 \* the lines the most recent operation wrote to std::cerr
    m_textureIDs,         \* SceneManager::m_textureIDs, entries [ID, tag]
    m_loadedTextures,     \* SceneManager::m_loadedTextures
    gltex,                \* the OpenGL texture objects and texture unit bindings
    smPhase,              \* where the SceneManager is in its life
    texPc,                \* CreateGLTexture calls made by LoadSceneTextures so far
    bReturn,              \* LoadSceneTextures' local bReturn
    stbImage,             \* what stbi_load returned to the most recent call
    texLog,               \* the line the most recent call wrote to std::cout
    texRounds,            \* LoadSceneTextures invocations completed before this one
    g_pCamera,            \* the Camera object of ViewManager.cpp
    gLastX,               \* last mouse position, in pixels
    gLastY,
    gFirstMouse,
    gDeltaTime,           \* time between the last two frames, in tenths of a second
    gLastFrame,           \* glfwGetTime() at the last frame, in tenths of a second
    bOrthographicProjection,
    window,               \* what the program has set on the GLFW window / GL viewport
    shader,               \* the shader uniforms ViewManager is said to maintain
    viewSteps,            \* number of events and frames handled so far
    lastEvent,            \* the most recent event or frame and its inputs
    scene                 \* progress of RenderScene and the draws of its last Render function

meshVars == <<m_bMemoryLayoutDone, meshes, gl, loads, lastOp, lastDraws, cerr>>

texVars == <<m_textureIDs, m_loadedTextures, gltex, smPhase, texPc, bReturn,
             stbImage, texLog, texRounds>>

viewVars == <<g_pCamera, gLastX, gLastY, gFirstMouse, gDeltaTime, gLastFrame,
              bOrthographicProjection, window, shader, viewSteps, lastEvent>>

sceneVars == <<scene>>

vars == <<meshVars, texVars, viewVars, sceneVars>>

\* what a ShapeMeshes, a SceneManager texture or a ViewManager step leaves alone
\* (the Render functions of SceneManager write variables of all three groups)
nonMeshVars == <<texVars, viewVars, sceneVars>>
nonTexVars == <<meshVars, viewVars, sceneVars>>
nonViewVars == <<meshVars, texVars, sceneVars>>

MeshKinds == {"Box", "Cone", "Cylinder", "Plane", "Prism", "Pyramid3", "Pyramid4",
              "Sphere", "TaperedCylinder", "Torus", "ExtraTorus1", "ExtraTorus2"}

(***************************************************************************)
(* Exact fractions for the texture coordinates.                            *)
(***************************************************************************)
Frac(a, b) == <<a, b>>
OneMinus(f) == <<f[2] - f[1], f[2]>>
Abs(x) == IF x < 0 THEN -x ELSE x

(***************************************************************************)
(* The part of OpenGL the mesh code uses: the named vertex arrays, the     *)
(* named buffers and the bindings.  The default vertex array (name 0) is   *)
(* not tracked: a call made while it is bound either fails (core profile)  *)
(* or changes the default array, and in both cases no named vertex array   *)
(* changes.  Buffer name 0 stands for "no buffer".                         *)
(***************************************************************************)
AttrLocs == 0..2

DefaultAttrib == [size |-> 4, stride |-> 0, offset |-> 0, buf |-> 0, enabled |-> FALSE]

NewVAO == [attribs |-> [l \in AttrLocs |-> DefaultAttrib], elemBuf |-> 0]

VAOWritable(g) == g.boundVAO # 0

NextVAO(g) == Len(g.vaos) + 1
NextBuffer(g) == Len(g.bufs) + 1

VAOof(g, id) == IF id = 0 THEN NewVAO ELSE g.vaos[id]

SetBoundVAO(g, v) ==
    IF g.boundVAO = 0 THEN g
    ELSE [g EXCEPT !.vaos[g.boundVAO] = v]

glGenVertexArrays(g) == [g EXCEPT !.vaos = Append(@, NewVAO)]

glBindVertexArray(g, id) == [g EXCEPT !.boundVAO = id]

RECURSIVE glGenBuffers(_, _)
glGenBuffers(g, n) ==
    IF n = 0 THEN g ELSE glGenBuffers([g EXCEPT !.bufs = Append(@, <<>>)], n - 1)

glBindBuffer(g, target, id) ==
    IF target = "GL_ARRAY_BUFFER" THEN [g EXCEPT !.arrayBuf = id]
    ELSE IF VAOWritable(g)
         THEN SetBoundVAO(g, [VAOof(g, g.boundVAO) EXCEPT !.elemBuf = id])
         ELSE g

BoundBuffer(g, target) ==
    IF target = "GL_ARRAY_BUFFER" THEN g.arrayBuf ELSE VAOof(g, g.boundVAO).elemBuf

glBufferData(g, target, data) ==
    IF BoundBuffer(g, target) = 0 THEN g
    ELSE [g EXCEPT !.bufs[BoundBuffer(g, target)] = data]

glVertexAttribPointer(g, loc, size, stride, offset) ==
    IF VAOWritable(g)
    THEN SetBoundVAO(g, [VAOof(g, g.boundVAO) EXCEPT
                            !.attribs[loc].size = size,
                            !.attribs[loc].stride = stride,
                            !.attribs[loc].offset = offset,
                            !.attribs[loc].buf = g.arrayBuf])
    ELSE g

glEnableVertexAttribArray(g, loc) ==
    IF VAOWritable(g)
    THEN SetBoundVAO(g, [VAOof(g, g.boundVAO) EXCEPT !.attribs[loc].enabled = TRUE])
    ELSE g

(***************************************************************************)
(* ShapeMeshes::SetShaderMemoryLayout: position, normal and UV attributes  *)
(* of the vertex array that is bound when it is called.                    *)
(***************************************************************************)
SetShaderMemoryLayout(g) ==
    LET stride == SizeofFloat * (FloatsPerVertex + FloatsPerNormal + FloatsPerUV)
        g1 == glVertexAttribPointer(g, 0, FloatsPerVertex, stride, 0)
        g2 == glEnableVertexAttribArray(g1, 0)
        g3 == glVertexAttribPointer(g2, 1, FloatsPerNormal, stride,
                                    SizeofFloat * FloatsPerVertex)
        g4 == glEnableVertexAttribArray(g3, 1)
        g5 == glVertexAttribPointer(g4, 2, FloatsPerUV, stride,
                                    SizeofFloat * (FloatsPerVertex + FloatsPerNormal))
    IN  glEnableVertexAttribArray(g5, 2)

\* the "if (!m_bMemoryLayoutDone) SetShaderMemoryLayout();" tail of every loader
LayoutIfNotDone(g, done) == IF ~done THEN SetShaderMemoryLayout(g) ELSE g

(***************************************************************************)
(* Vertex and index data.  A box, prism or tapered-cylinder vertex is a    *)
(* row of the literal table in the source.  Units: BoxVerts positions are  *)
(* in halves; PrismVerts positions are in sixths, its normals in           *)
(* millionths and its texture coordinates in halves; TaperedCylinderVerts  *)
(* positions are in thousandths and each row carries the name of the       *)
(* commented block ("cylinder bottom", "cylinder top", "cylinder body")    *)
(* it stands in.                                                           *)
(***************************************************************************)
BoxVerts == <<
    [pos |-> <<1, 1, -1>>, nrm |-> <<0, 0, -1>>, uv |-> <<0, 1>>],
    [pos |-> <<1, -1, -1>>, nrm |-> <<0, 0, -1>>, uv |-> <<0, 0>>],
    [pos |-> <<-1, -1, -1>>, nrm |-> <<0, 0, -1>>, uv |-> <<1, 0>>],
    [pos |-> <<-1, 1, -1>>, nrm |-> <<0, 0, -1>>, uv |-> <<1, 1>>],
    [pos |-> <<-1, -1, 1>>, nrm |-> <<0, -1, 0>>, uv |-> <<0, 1>>],
    [pos |-> <<-1, -1, -1>>, nrm |-> <<0, -1, 0>>, uv |-> <<0, 0>>],
    [pos |-> <<1, -1, -1>>, nrm |-> <<0, -1, 0>>, uv |-> <<1, 0>>],
    [pos |-> <<1, -1, 1>>, nrm |-> <<0, -1, 0>>, uv |-> <<1, 1>>],
    [pos |-> <<-1, 1, -1>>, nrm |-> <<-1, 0, 0>>, uv |-> <<0, 1>>],
    [pos |-> <<-1, -1, -1>>, nrm |-> <<-1, 0, 0>>, uv |-> <<0, 0>>],
    [pos |-> <<-1, -1, 1>>, nrm |-> <<-1, 0, 0>>, uv |-> <<1, 0>>],
    [pos |-> <<-1, 1, 1>>, nrm |-> <<-1, 0, 0>>, uv |-> <<1, 1>>],
    [pos |-> <<1, 1, 1>>, nrm |-> <<1, 0, 0>>, uv |-> <<0, 1>>],
    [pos |-> <<1, -1, 1>>, nrm |-> <<1, 0, 0>>, uv |-> <<0, 0>>],
    [pos |-> <<1, -1, -1>>, nrm |-> <<1, 0, 0>>, uv |-> <<1, 0>>],
    [pos |-> <<1, 1, -1>>, nrm |-> <<1, 0, 0>>, uv |-> <<1, 1>>],
    [pos |-> <<-1, 1, -1>>, nrm |-> <<0, 1, 0>>, uv |-> <<0, 1>>],
    [pos |-> <<-1, 1, 1>>, nrm |-> <<0, 1, 0>>, uv |-> <<0, 0>>],
    [pos |-> <<1, 1, 1>>, nrm |-> <<0, 1, 0>>, uv |-> <<1, 0>>],
    [pos |-> <<1, 1, -1>>, nrm |-> <<0, 1, 0>>, uv |-> <<1, 1>>],
    [pos |-> <<-1, 1, 1>>, nrm |-> <<0, 0, 1>>, uv |-> <<0, 1>>],
    [pos |-> <<-1, -1, 1>>, nrm |-> <<0, 0, 1>>, uv |-> <<0, 0>>],
    [pos |-> <<1, -1, 1>>, nrm |-> <<0, 0, 1>>, uv |-> <<1, 0>>],
    [pos |-> <<1, 1, 1>>, nrm |-> <<0, 0, 1>>, uv |-> <<1, 1>>]
>>
BoxIndices == <<
    0, 1, 2, 0, 3, 2,
    4, 5, 6, 4, 7, 6,
    8, 9, 10, 8, 11, 10,
    12, 13, 14, 12, 15, 14,
    16, 17, 18, 16, 19, 18,
    20, 21, 22, 20, 23, 22
>>

PrismVerts == <<
    [pos |-> <<3, 3, -3>>, nrm |-> <<0, 0, -1000000>>, uv |-> <<0, 2>>],
    [pos |-> <<3, -3, -3>>, nrm |-> <<0, 0, -1000000>>, uv |-> <<0, 0>>],
    [pos |-> <<-3, -3, -3>>, nrm |-> <<0, 0, -1000000>>, uv |-> <<2, 0>>],
    [pos |-> <<3, 3, -3>>, nrm |-> <<0, 0, -1000000>>, uv |-> <<0, 2>>],
    [pos |-> <<3, 3, -3>>, nrm |-> <<0, 0, -1000000>>, uv |-> <<0, 2>>],
    [pos |-> <<-3, 3, -3>>, nrm |-> <<0, 0, -1000000>>, uv |-> <<2, 2>>],
    [pos |-> <<-3, -3, -3>>, nrm |-> <<0, 0, -1000000>>, uv |-> <<2, 0>>],
    [pos |-> <<3, 3, -3>>, nrm |-> <<0, 0, -1000000>>, uv |-> <<0, 2>>],
    [pos |-> <<3, -3, -3>>, nrm |-> <<0, -1000000, 0>>, uv |-> <<0, 0>>],
    [pos |-> <<-3, -3, -3>>, nrm |-> <<0, -1000000, 0>>, uv |-> <<2, 0>>],
    [pos |-> <<0, -3, 3>>, nrm |-> <<0, -1000000, 0>>, uv |-> <<1, 2>>],
    [pos |-> <<-3, -3, -3>>, nrm |-> <<0, -1000000, 0>>, uv |-> <<0, 0>>],
    [pos |-> <<-3, -3, -3>>, nrm |-> <<894427, 0, -447214>>, uv |-> <<0, 0>>],
    [pos |-> <<-3, 3, -3>>, nrm |-> <<894427, 0, -447214>>, uv |-> <<0, 2>>],
    [pos |-> <<0, 3, 3>>, nrm |-> <<894427, 0, -447214>>, uv |-> <<2, 2>>],
    [pos |-> <<-3, -3, -3>>, nrm |-> <<894427, 0, -447214>>, uv |-> <<0, 0>>],
    [pos |-> <<-3, -3, -3>>, nrm |-> <<894427, 0, -447214>>, uv |-> <<0, 0>>],
    [pos |-> <<0, -3, 3>>, nrm |-> <<894427, 0, -447214>>, uv |-> <<2, 0>>],
    [pos |-> <<0, 3, 3>>, nrm |-> <<894427, 0, -447214>>, uv |-> <<2, 2>>],
    [pos |-> <<-3, -3, -3>>, nrm |-> <<894427, 0, -447214>>, uv |-> <<0, 0>>],
    [pos |-> <<0, 3, 3>>, nrm |-> <<-894427, 0, -447214>>, uv |-> <<0, 2>>],
    [pos |-> <<3, 3, -3>>, nrm |-> <<-894427, 0, -447214>>, uv |-> <<2, 2>>],
    [pos |-> <<3, -3, -3>>, nrm |-> <<-894427, 0, -447214>>, uv |-> <<2, 0>>],
    [pos |-> <<0, 3, 3>>, nrm |-> <<-894427, 0, -447214>>, uv |-> <<0, 2>>],
    [pos |-> <<0, 3, 3>>, nrm |-> <<-894427, 0, -447214>>, uv |-> <<0, 2>>],
    [pos |-> <<0, -3, 3>>, nrm |-> <<-894427, 0, -447214>>, uv |-> <<0, 0>>],
    [pos |-> <<3, -3, -3>>, nrm |-> <<-894427, 0, -447214>>, uv |-> <<2, 0>>],
    [pos |-> <<0, 3, 3>>, nrm |-> <<-894427, 0, -447214>>, uv |-> <<0, 2>>],
    [pos |-> <<3, 3, -3>>, nrm |-> <<0, 1000000, 0>>, uv |-> <<0, 0>>],
    [pos |-> <<0, 3, 3>>, nrm |-> <<0, 1000000, 0>>, uv |-> <<1, 2>>],
    [pos |-> <<-3, 3, -3>>, nrm |-> <<0, 1000000, 0>>, uv |-> <<2, 0>>],
    [pos |-> <<3, 3, -3>>, nrm |-> <<0, 1000000, 0>>, uv |-> <<0, 0>>]
>>
TaperedCylinderVerts == <<
    [section |-> "bottom", pos |-> <<1000, 0, 0>>],
    [section |-> "bottom", pos |-> <<980, 0, -170>>],
    [section |-> "bottom", pos |-> <<940, 0, -340>>],
    [section |-> "bottom", pos |-> <<870, 0, -500>>],
    [section |-> "bottom", pos |-> <<770, 0, -640>>],
    [section |-> "bottom", pos |-> <<640, 0, -770>>],
    [section |-> "bottom", pos |-> <<500, 0, -870>>],
    [section |-> "bottom", pos |-> <<340, 0, -940>>],
    [section |-> "bottom", pos |-> <<170, 0, -980>>],
    [section |-> "bottom", pos |-> <<0, 0, -1000>>],
    [section |-> "bottom", pos |-> <<-170, 0, -980>>],
    [section |-> "bottom", pos |-> <<-340, 0, -940>>],
    [section |-> "bottom", pos |-> <<-500, 0, -870>>],
    [section |-> "bottom", pos |-> <<-640, 0, -770>>],
    [section |-> "bottom", pos |-> <<-770, 0, -640>>],
    [section |-> "bottom", pos |-> <<-870, 0, -500>>],
    [section |-> "bottom", pos |-> <<-940, 0, -340>>],
    [section |-> "bottom", pos |-> <<-980, 0, -170>>],
    [section |-> "bottom", pos |-> <<-1000, 0, 0>>],
    [section |-> "bottom", pos |-> <<-980, 0, 170>>],
    [section |-> "bottom", pos |-> <<-940, 0, 340>>],
    [section |-> "bottom", pos |-> <<-870, 0, 500>>],
    [section |-> "bottom", pos |-> <<-770, 0, 640>>],
    [section |-> "bottom", pos |-> <<-640, 0, 770>>],
    [section |-> "bottom", pos |-> <<-500, 0, 870>>],
    [section |-> "bottom", pos |-> <<-340, 0, 940>>],
    [section |-> "bottom", pos |-> <<-170, 0, 980>>],
    [section |-> "bottom", pos |-> <<0, 0, 1000>>],
    [section |-> "bottom", pos |-> <<170, 0, 980>>],
    [section |-> "bottom", pos |-> <<340, 0, 940>>],
    [section |-> "bottom", pos |-> <<500, 0, 870>>],
    [section |-> "bottom", pos |-> <<640, 0, 770>>],
    [section |-> "bottom", pos |-> <<770, 0, 640>>],
    [section |-> "bottom", pos |-> <<870, 0, 500>>],
    [section |-> "bottom", pos |-> <<940, 0, 340>>],
    [section |-> "bottom", pos |-> <<980, 0, 170>>],
    [section |-> "top", pos |-> <<500, 1000, 0>>],
    [section |-> "top", pos |-> <<490, 1000, -85>>],
    [section |-> "top", pos |-> <<470, 1000, -170>>],
    [section |-> "top", pos |-> <<435, 1000, -250>>],
    [section |-> "top", pos |-> <<385, 1000, -320>>],
    [section |-> "top", pos |-> <<320, 1000, -385>>],
    [section |-> "top", pos |-> <<250, 1000, -435>>],
    [section |-> "top", pos |-> <<170, 1000, -470>>],
    [section |-> "top", pos |-> <<85, 1000, -490>>],
    [section |-> "top", pos |-> <<0, 1000, -500>>],
    [section |-> "top", pos |-> <<-85, 1000, -490>>],
    [section |-> "top", pos |-> <<-170, 1000, -470>>],
    [section |-> "top", pos |-> <<-250, 1000, -435>>],
    [section |-> "top", pos |-> <<-320, 1000, -385>>],
    [section |-> "top", pos |-> <<-385, 1000, -320>>],
    [section |-> "top", pos |-> <<-435, 1000, -250>>],
    [section |-> "top", pos |-> <<-470, 1000, -170>>],
    [section |-> "top", pos |-> <<-490, 1000, -85>>],
    [section |-> "top", pos |-> <<-500, 1000, 0>>],
    [section |-> "top", pos |-> <<-490, 1000, 85>>],
    [section |-> "top", pos |-> <<-470, 1000, 170>>],
    [section |-> "top", pos |-> <<-435, 1000, 250>>],
    [section |-> "top", pos |-> <<-385, 1000, 320>>],
    [section |-> "top", pos |-> <<-320, 1000, 385>>],
    [section |-> "top", pos |-> <<-250, 1000, 435>>],
    [section |-> "top", pos |-> <<-170, 1000, 470>>],
    [section |-> "top", pos |-> <<-85, 1000, 490>>],
    [section |-> "top", pos |-> <<0, 1000, 500>>],
    [section |-> "top", pos |-> <<85, 1000, 490>>],
    [section |-> "top", pos |-> <<170, 1000, 470>>],
    [section |-> "top", pos |-> <<250, 1000, 435>>],
    [section |-> "top", pos |-> <<320, 1000, 385>>],
    [section |-> "top", pos |-> <<385, 1000, 320>>],
    [section |-> "top", pos |-> <<435, 1000, 250>>],
    [section |-> "top", pos |-> <<470, 1000, 170>>],
    [section |-> "top", pos |-> <<490, 1000, 85>>],
    [section |-> "sides", pos |-> <<500, 1000, 0>>],
    [section |-> "sides", pos |-> <<1000, 0, 0>>],
    [section |-> "sides", pos |-> <<980, 0, -170>>],
    [section |-> "sides", pos |-> <<500, 1000, 0>>],
    [section |-> "sides", pos |-> <<490, 1000, -85>>],
    [section |-> "sides", pos |-> <<980, 0, -170>>],
    [section |-> "sides", pos |-> <<940, 0, -340>>],
    [section |-> "sides", pos |-> <<490, 1000, -85>>],
    [section |-> "sides", pos |-> <<470, 1000, -170>>],
    [section |-> "sides", pos |-> <<940, 0, -340>>],
    [section |-> "sides", pos |-> <<870, 0, -500>>],
    [section |-> "sides", pos |-> <<470, 1000, -170>>],
    [section |-> "sides", pos |-> <<435, 1000, -250>>],
    [section |-> "sides", pos |-> <<870, 0, -500>>],
    [section |-> "sides", pos |-> <<770, 0, -640>>],
    [section |-> "sides", pos |-> <<435, 1000, -250>>],
    [section |-> "sides", pos |-> <<385, 1000, -320>>],
    [section |-> "sides", pos |-> <<770, 0, -640>>],
    [section |-> "sides", pos |-> <<640, 0, -770>>],
    [section |-> "sides", pos |-> <<385, 1000, -320>>],
    [section |-> "sides", pos |-> <<320, 1000, -385>>],
    [section |-> "sides", pos |-> <<640, 0, -770>>],
    [section |-> "sides", pos |-> <<500, 0, -870>>],
    [section |-> "sides", pos |-> <<320, 1000, -385>>],
    [section |-> "sides", pos |-> <<250, 1000, -435>>],
    [section |-> "sides", pos |-> <<500, 0, -870>>],
    [section |-> "sides", pos |-> <<340, 0, -940>>],
    [section |-> "sides", pos |-> <<250, 1000, -435>>],
    [section |-> "sides", pos |-> <<170, 1000, -470>>],
    [section |-> "sides", pos |-> <<340, 0, -940>>],
    [section |-> "sides", pos |-> <<170, 0, -980>>],
    [section |-> "sides", pos |-> <<170, 1000, -470>>],
    [section |-> "sides", pos |-> <<85, 1000, -490>>],
    [section |-> "sides", pos |-> <<170, 0, -980>>],
    [section |-> "sides", pos |-> <<0, 0, -1000>>],
    [section |-> "sides", pos |-> <<85, 1000, -490>>],
    [section |-> "sides", pos |-> <<0, 1000, -500>>],
    [section |-> "sides", pos |-> <<0, 0, -1000>>],
    [section |-> "sides", pos |-> <<-170, 0, -980>>],
    [section |-> "sides", pos |-> <<0, 1000, -500>>],
    [section |-> "sides", pos |-> <<-85, 1000, -490>>],
    [section |-> "sides", pos |-> <<-170, 0, -980>>],
    [section |-> "sides", pos |-> <<-340, 0, -940>>],
    [section |-> "sides", pos |-> <<-85, 1000, -490>>],
    [section |-> "sides", pos |-> <<-170, 1000, -470>>],
    [section |-> "sides", pos |-> <<-340, 0, -940>>],
    [section |-> "sides", pos |-> <<-500, 0, -870>>],
    [section |-> "sides", pos |-> <<-170, 1000, -470>>],
    [section |-> "sides", pos |-> <<-250, 1000, -435>>],
    [section |-> "sides", pos |-> <<-500, 0, -870>>],
    [section |-> "sides", pos |-> <<-640, 0, -770>>],
    [section |-> "sides", pos |-> <<-250, 1000, -435>>],
    [section |-> "sides", pos |-> <<-320, 1000, -385>>],
    [section |-> "sides", pos |-> <<-640, 0, -770>>],
    [section |-> "sides", pos |-> <<-770, 0, -640>>],
    [section |-> "sides", pos |-> <<-320, 1000, -385>>],
    [section |-> "sides", pos |-> <<-385, 1000, -320>>],
    [section |-> "sides", pos |-> <<-770, 0, -640>>],
    [section |-> "sides", pos |-> <<-870, 0, -500>>],
    [section |-> "sides", pos |-> <<-385, 1000, -320>>],
    [section |-> "sides", pos |-> <<-435, 1000, -250>>],
    [section |-> "sides", pos |-> <<-870, 0, -500>>],
    [section |-> "sides", pos |-> <<-940, 0, -340>>],
    [section |-> "sides", pos |-> <<-435, 1000, -250>>],
    [section |-> "sides", pos |-> <<-470, 1000, -170>>],
    [section |-> "sides", pos |-> <<-940, 0, -340>>],
    [section |-> "sides", pos |-> <<-980, 0, -170>>],
    [section |-> "sides", pos |-> <<-470, 1000, -170>>],
    [section |-> "sides", pos |-> <<-490, 1000, -85>>],
    [section |-> "sides", pos |-> <<-980, 0, -170>>],
    [section |-> "sides", pos |-> <<-1000, 0, 0>>],
    [section |-> "sides", pos |-> <<-490, 1000, -85>>],
    [section |-> "sides", pos |-> <<-500, 1000, 0>>],
    [section |-> "sides", pos |-> <<-1000, 0, 0>>],
    [section |-> "sides", pos |-> <<-980, 0, 170>>],
    [section |-> "sides", pos |-> <<-500, 1000, 0>>],
    [section |-> "sides", pos |-> <<-490, 1000, 85>>],
    [section |-> "sides", pos |-> <<-980, 0, 170>>],
    [section |-> "sides", pos |-> <<-940, 0, 340>>],
    [section |-> "sides", pos |-> <<-490, 1000, 85>>],
    [section |-> "sides", pos |-> <<-470, 1000, 170>>],
    [section |-> "sides", pos |-> <<-940, 0, 340>>],
    [section |-> "sides", pos |-> <<-870, 0, 500>>],
    [section |-> "sides", pos |-> <<-470, 1000, 170>>],
    [section |-> "sides", pos |-> <<-435, 1000, 250>>],
    [section |-> "sides", pos |-> <<-870, 0, 500>>],
    [section |-> "sides", pos |-> <<-770, 0, 640>>],
    [section |-> "sides", pos |-> <<-435, 1000, 250>>],
    [section |-> "sides", pos |-> <<-385, 1000, 320>>],
    [section |-> "sides", pos |-> <<-770, 0, 640>>],
    [section |-> "sides", pos |-> <<-640, 0, 770>>],
    [section |-> "sides", pos |-> <<-385, 1000, 320>>],
    [section |-> "sides", pos |-> <<-320, 1000, 385>>],
    [section |-> "sides", pos |-> <<-640, 0, 770>>],
    [section |-> "sides", pos |-> <<-500, 0, 870>>],
    [section |-> "sides", pos |-> <<-320, 1000, 385>>],
    [section |-> "sides", pos |-> <<-250, 1000, 435>>],
    [section |-> "sides", pos |-> <<-500, 0, 870>>],
    [section |-> "sides", pos |-> <<-340, 0, 940>>],
    [section |-> "sides", pos |-> <<-250, 1000, 435>>],
    [section |-> "sides", pos |-> <<-170, 1000, 470>>],
    [section |-> "sides", pos |-> <<-340, 0, 940>>],
    [section |-> "sides", pos |-> <<-170, 0, 980>>],
    [section |-> "sides", pos |-> <<-170, 1000, 470>>],
    [section |-> "sides", pos |-> <<-85, 1000, 490>>],
    [section |-> "sides", pos |-> <<-170, 0, 980>>],
    [section |-> "sides", pos |-> <<0, 0, 1000>>],
    [section |-> "sides", pos |-> <<-85, 1000, 490>>],
    [section |-> "sides", pos |-> <<0, 1000, 500>>],
    [section |-> "sides", pos |-> <<0, 0, 1000>>],
    [section |-> "sides", pos |-> <<170, 0, 980>>],
    [section |-> "sides", pos |-> <<0, 1000, 500>>],
    [section |-> "sides", pos |-> <<85, 1000, 490>>],
    [section |-> "sides", pos |-> <<170, 0, 980>>],
    [section |-> "sides", pos |-> <<340, 0, 940>>],
    [section |-> "sides", pos |-> <<85, 1000, 490>>],
    [section |-> "sides", pos |-> <<170, 1000, 470>>],
    [section |-> "sides", pos |-> <<340, 0, 940>>],
    [section |-> "sides", pos |-> <<500, 0, 870>>],
    [section |-> "sides", pos |-> <<170, 1000, 470>>],
    [section |-> "sides", pos |-> <<250, 1000, 435>>],
    [section |-> "sides", pos |-> <<500, 0, 870>>],
    [section |-> "sides", pos |-> <<640, 0, 770>>],
    [section |-> "sides", pos |-> <<250, 1000, 435>>],
    [section |-> "sides", pos |-> <<320, 1000, 385>>],
    [section |-> "sides", pos |-> <<640, 0, 770>>],
    [section |-> "sides", pos |-> <<770, 0, 640>>],
    [section |-> "sides", pos |-> <<320, 1000, 385>>],
    [section |-> "sides", pos |-> <<385, 1000, 320>>],
    [section |-> "sides", pos |-> <<770, 0, 640>>],
    [section |-> "sides", pos |-> <<870, 0, 500>>],
    [section |-> "sides", pos |-> <<385, 1000, 320>>],
    [section |-> "sides", pos |-> <<435, 1000, 250>>],
    [section |-> "sides", pos |-> <<870, 0, 500>>],
    [section |-> "sides", pos |-> <<940, 0, 340>>],
    [section |-> "sides", pos |-> <<435, 1000, 250>>],
    [section |-> "sides", pos |-> <<470, 1000, 170>>],
    [section |-> "sides", pos |-> <<940, 0, 340>>],
    [section |-> "sides", pos |-> <<980, 0, 170>>],
    [section |-> "sides", pos |-> <<470, 1000, 170>>],
    [section |-> "sides", pos |-> <<490, 1000, 85>>],
    [section |-> "sides", pos |-> <<980, 0, 170>>],
    [section |-> "sides", pos |-> <<1000, 0, 0>>],
    [section |-> "sides", pos |-> <<490, 1000, 85>>],
    [section |-> "sides", pos |-> <<500, 1000, 0>>],
    [section |-> "sides", pos |-> <<1000, 0, 0>>]
>>
\* LoadPlaneMesh: positions in units of (halfWidth, 1, halfHeight)
PlaneVerts == <<
    [pos |-> <<-1, 0, 1>>, nrm |-> <<0, 1, 0>>, uv |-> <<0, 0>>],
    [pos |-> <<1, 0, 1>>, nrm |-> <<0, 1, 0>>, uv |-> <<1, 0>>],
    [pos |-> <<1, 0, -1>>, nrm |-> <<0, 1, 0>>, uv |-> <<1, 1>>],
    [pos |-> <<-1, 0, -1>>, nrm |-> <<0, 1, 0>>, uv |-> <<0, 1>>]
>>

PlaneIndices == <<0, 1, 2, 0, 2, 3>>

\* number of floats a list of vertices occupies in the uploaded array
FloatCount(verts) == Len(verts) * (FloatsPerVertex + FloatsPerNormal + FloatsPerUV)

\* "if (numSlices < 3) numSlices = 3;"
ClampSlices(numSlices) == IF numSlices < 3 THEN 3 ELSE numSlices

\* std::max(3, segments)
ClampSegments(segments) == IF 3 > segments THEN 3 ELSE segments

(***************************************************************************)
(* LoadConeMesh: centre of the bottom circle, the rim (slice 0 ..          *)
(* numSlices, the last one closing the circle), then a bottom/apex pair    *)
(* per slice for the side.  The angle of a vertex is i * angleStep; u is   *)
(* i / numSlices on the side.                                              *)
(***************************************************************************)
RECURSIVE ConeBottomLoop(_, _, _)
ConeBottomLoop(i, numSlices, vertices) ==
    IF i <= numSlices
    THEN ConeBottomLoop(i + 1, numSlices,
             Append(vertices, [section |-> "bottom", part |-> "rim", i |-> i]))
    ELSE vertices

RECURSIVE ConeSideLoop(_, _, _)
ConeSideLoop(i, numSlices, vertices) ==
    IF i <= numSlices
    THEN ConeSideLoop(i + 1, numSlices,
             vertices \o << [section |-> "sides", part |-> "bottom", i |-> i,
                             uv |-> <<Frac(i, numSlices), Frac(1, 1)>>],
                            [section |-> "sides", part |-> "apex", i |-> i,
                             uv |-> <<Frac(i, numSlices), Frac(0, 1)>>] >>)
    ELSE vertices

ConeVertices(numSlices) ==
    ConeSideLoop(0, numSlices,
        ConeBottomLoop(0, numSlices,
            << [section |-> "bottom", part |-> "center", i |-> 0] >>))

(***************************************************************************)
(* LoadCylinderMesh: bottom circle, top circle, side pairs.                *)
(***************************************************************************)
RECURSIVE CylinderBottomLoop(_, _, _)
CylinderBottomLoop(i, numSlices, vertices) ==
    IF i <= numSlices
    THEN CylinderBottomLoop(i + 1, numSlices,
             Append(vertices, [section |-> "bottom", part |-> "rim", i |-> i]))
    ELSE vertices

RECURSIVE CylinderTopLoop(_, _, _)
CylinderTopLoop(i, numSlices, vertices) ==
    IF i <= numSlices
    THEN CylinderTopLoop(i + 1, numSlices,
             Append(vertices, [section |-> "top", part |-> "rim", i |-> i]))
    ELSE vertices

RECURSIVE CylinderSideLoop(_, _, _)
CylinderSideLoop(i, numSlices, vertices) ==
    IF i <= numSlices
    THEN CylinderSideLoop(i + 1, numSlices,
             vertices \o << [section |-> "sides", part |-> "bottom", i |-> i,
                             uv |-> <<Frac(i, numSlices), Frac(0, 1)>>],
                            [section |-> "sides", part |-> "top", i |-> i,
                             uv |-> <<Frac(i, numSlices), Frac(1, 1)>>] >>)
    ELSE vertices

CylinderVertices(numSlices) ==
    LET bottom == CylinderBottomLoop(0, numSlices,
                      << [section |-> "bottom", part |-> "center", i |-> 0] >>)
        top == CylinderTopLoop(0, numSlices,
                      Append(bottom, [section |-> "top", part |-> "center", i |-> 0]))
    IN  CylinderSideLoop(0, numSlices, top)

(***************************************************************************)
(* LoadSphereMesh.  A vertex is identified by its (lat, lon) loop          *)
(* counters: theta = lat * Pi / latitudeSegments and                       *)
(* phi = lon * 2 * Pi / longitudeSegments give its position and normal.    *)
(***************************************************************************)
SphereVertex(lat, lon, latitudeSegments, longitudeSegments) ==
    [lat |-> lat, lon |-> lon,
     u |-> OneMinus(Frac(lon, longitudeSegments)),
     v |-> OneMinus(Frac(lat, latitudeSegments))]

\* SphereVertexLoop without the duplicated seam column (lon < longitudeSegments)
RECURSIVE SphereVertexLoopNoSeamColumn(_, _, _, _, _)
SphereVertexLoopNoSeamColumn(lat, lon, latitudeSegments, longitudeSegments, vertices) ==
    IF lat <= latitudeSegments
    THEN IF lon < longitudeSegments
         THEN SphereVertexLoopNoSeamColumn(lat, lon + 1, latitudeSegments,
                  longitudeSegments,
                  Append(vertices,
                         SphereVertex(lat, lon, latitudeSegments, longitudeSegments)))
         ELSE SphereVertexLoopNoSeamColumn(lat + 1, 0, latitudeSegments,
                  longitudeSegments, vertices)
    ELSE vertices

RECURSIVE SphereVertexLoop(_, _, _, _, _)
SphereVertexLoop(lat, lon, latitudeSegments, longitudeSegments, vertices) ==
    IF lat <= latitudeSegments
    THEN IF lon <= longitudeSegments
         THEN SphereVertexLoop(lat, lon + 1, latitudeSegments, longitudeSegments,
                  Append(vertices,
                         SphereVertex(lat, lon, latitudeSegments, longitudeSegments)))
         ELSE SphereVertexLoop(lat + 1, 0, latitudeSegments, longitudeSegments, vertices)
    ELSE vertices

SphereVertices(latitudeSegments, longitudeSegments) ==
    SphereVertexLoop(0, 0, latitudeSegments, longitudeSegments, <<>>)

\* SphereCell with the right-hand neighbours wrapped to column 0 at the seam
SphereCellWrapped(lat, lon, longitudeSegments) ==
    LET first == lat * (longitudeSegments + 1) + lon
        second == first + longitudeSegments + 1
        firstNext == lat * (longitudeSegments + 1) + ((lon + 1) % longitudeSegments)
        secondNext == firstNext + longitudeSegments + 1
    IN  << first, second, firstNext,
           second, secondNext, firstNext >>

\* the six indices of one (lat, lon) cell
SphereCell(lat, lon, longitudeSegments) ==
    LET first == lat * (longitudeSegments + 1) + lon
        second == first + longitudeSegments + 1
    IN  << first, second, first + 1,
           second, second + 1, first + 1 >>

RECURSIVE SphereIndexLoop(_, _, _, _, _)
SphereIndexLoop(lat, lon, latitudeSegments, longitudeSegments, indices) ==
    IF lat < latitudeSegments
    THEN IF lon < longitudeSegments
         THEN SphereIndexLoop(lat, lon + 1, latitudeSegments, longitudeSegments,
                  indices \o SphereCell(lat, lon, longitudeSegments))
         ELSE SphereIndexLoop(lat + 1, 0, latitudeSegments, longitudeSegments, indices)
    ELSE indices

SphereIndices(latitudeSegments, longitudeSegments) ==
    SphereIndexLoop(0, 0, latitudeSegments, longitudeSegments, <<>>)

(***************************************************************************)
(* LoadTorusMesh.  A vertex is identified by its (i, j) loop counters:     *)
(* mainAngle = i * mainSegmentStep, tubeAngle = j * tubeSegmentStep.       *)
(***************************************************************************)
TorusVertex(i, j, mainSegments, tubeSegments) ==
    [i |-> i, j |-> j,
     u |-> Frac(i, mainSegments),
     v |-> Frac(j, tubeSegments)]

\* the inner loop (j from its value to tubeSegments) of one main segment
RECURSIVE TorusVertexRow(_, _, _, _, _)
TorusVertexRow(i, j, mainSegments, tubeSegments, vertices) ==
    IF j <= tubeSegments
    THEN TorusVertexRow(i, j + 1, mainSegments, tubeSegments,
             Append(vertices, TorusVertex(i, j, mainSegments, tubeSegments)))
    ELSE vertices

\* the outer loop, from main segment i at tube segment j (the test on the
\* row is always true: it has TLC evaluate the row before the next pass)
RECURSIVE TorusVertexLoop(_, _, _, _, _)
TorusVertexLoop(i, j, mainSegments, tubeSegments, vertices) ==
    IF i <= mainSegments
    THEN LET row == TorusVertexRow(i, j, mainSegments, tubeSegments, vertices)
         IN  IF Len(row) >= 0
             THEN TorusVertexLoop(i + 1, 0, mainSegments, tubeSegments, row)
             ELSE row
    ELSE vertices

TorusVertices(mainSegments, tubeSegments) ==
    TorusVertexLoop(0, 0, mainSegments, tubeSegments, <<>>)

\* TorusCell with the second triangle listed in the opposite direction
TorusCellFlipped(i, j, tubeSegments) ==
    LET current == i * (tubeSegments + 1) + j
        next == (i + 1) * (tubeSegments + 1) + j
    IN  << current, next, current + 1,
           current + 1, next + 1, next >>

\* TorusCell for rows of tubeSegments + 2 vertices
TorusCellWideRows(i, j, tubeSegments) ==
    LET current == i * (tubeSegments + 2) + j
        next == (i + 1) * (tubeSegments + 2) + j
    IN  << current, next, current + 1,
           current + 1, next, next + 1 >>

TorusCell(i, j, tubeSegments) ==
    LET current == i * (tubeSegments + 1) + j
        next == (i + 1) * (tubeSegments + 1) + j
    IN  << current, next, current + 1,
           current + 1, next, next + 1 >>

\* the inner loop (j from its value to tubeSegments - 1) of one main segment
RECURSIVE TorusIndexRow(_, _, _, _)
TorusIndexRow(i, j, tubeSegments, indices) ==
    IF j < tubeSegments
    THEN TorusIndexRow(i, j + 1, tubeSegments, indices \o TorusCell(i, j, tubeSegments))
    ELSE indices

\* the outer loop, from main segment i at tube segment j (the test on the
\* row is always true: it has TLC evaluate the row before the next pass)
RECURSIVE TorusIndexLoop(_, _, _, _, _)
TorusIndexLoop(i, j, mainSegments, tubeSegments, indices) ==
    IF i < mainSegments
    THEN LET row == TorusIndexRow(i, j, tubeSegments, indices)
         IN  IF Len(row) >= 0
             THEN TorusIndexLoop(i + 1, 0, mainSegments, tubeSegments, row)
             ELSE row
    ELSE indices

TorusIndices(mainSegments, tubeSegments) ==
    TorusIndexLoop(0, 0, mainSegments, tubeSegments, <<>>)

(***************************************************************************)
(* LoadPyramid3Mesh / LoadPyramid4Mesh: three vertices per triangular face *)
(* (top, first base vertex, second base vertex) and the base.  Texture     *)
(* coordinates are in halves.                                              *)
(***************************************************************************)
PyramidFace(name) == <<
    [section |-> name, part |-> "top", uv |-> <<1, 2>>],
    [section |-> name, part |-> "bottom1", uv |-> <<0, 0>>],
    [section |-> name, part |-> "bottom2", uv |-> <<2, 0>>] >>

Pyramid3Verts ==
    PyramidFace("left") \o PyramidFace("right") \o PyramidFace("front") \o
    << [section |-> "base", part |-> "frontLeft", uv |-> <<0, 2>>],
       [section |-> "base", part |-> "frontRight", uv |-> <<2, 2>>],
       [section |-> "base", part |-> "back", uv |-> <<1, 0>>] >>

Pyramid4Verts ==
    << [section |-> "bottom", part |-> "frontLeft", uv |-> <<0, 2>>],
       [section |-> "bottom", part |-> "backLeft", uv |-> <<0, 0>>],
       [section |-> "bottom", part |-> "backRight", uv |-> <<2, 0>>],
       [section |-> "bottom", part |-> "frontRight", uv |-> <<2, 2>>] >> \o
    PyramidFace("left") \o PyramidFace("back") \o PyramidFace("right") \o
    PyramidFace("front")

(***************************************************************************)
(* LoadExtraTorusMesh1 / LoadExtraTorusMesh2: 30 x 30 segment points, and  *)
(* the list entries of each (i, j) cell, each naming a segment point.  The *)
(* uploaded array is kept as one run that records how many entries the     *)
(* cells pushed.                                                           *)
(***************************************************************************)
ExtraTorusMainSegments == 30
ExtraTorusTubeSegments == 30

ExtraTorusCell(i, j) ==
    LET M == ExtraTorusMainSegments
        T == ExtraTorusTubeSegments
        here == <<i, j>>
    IN  IF (i + 1) < M /\ (j + 1) < T
        THEN << here, <<i, j + 1>>, <<i + 1, j + 1>>, here,
                <<i + 1, j>>, <<i + 1, j + 1>>, here >>
        ELSE IF (i + 1) = M /\ (j + 1) = T
        THEN << here, <<i, 0>>, <<0, 0>>, here, <<0, j>>, <<0, 0>>, here >>
        ELSE IF (i + 1) = M
        THEN << here, <<i, j + 1>>, <<0, j + 1>>, here,
                <<0, j>>, <<0, j + 1>>, here >>
        ELSE << here, <<i, 0>>, <<i + 1, 0>>, here,
                <<i + 1, j>>, <<i + 1, 0>>, here >>

\* vertex_list.size() after the cell loops
ExtraTorusVertexCount ==
    Cardinality({c \in (0..(ExtraTorusMainSegments - 1))
                        \X (0..(ExtraTorusTubeSegments - 1)) \X (1..7) :
                    c[3] <= Len(ExtraTorusCell(c[1], c[2]))})

ExtraTorusVertexList == << [section |-> "torus", count |-> ExtraTorusVertexCount] >>

(***************************************************************************)
(* State after construction.  ShapeMeshes::ShapeMeshes clears the layout   *)
(* flag; the GLMesh members start zeroed (no VAO, no buffers, no counts).  *)
(* No vertex array and no buffer exists yet.                               *)
(***************************************************************************)
NoMesh == [vao |-> 0, vbos |-> <<0, 0>>, nVertices |-> 0, nIndices |-> 0, numSlices |-> 0]

InitGL == [boundVAO |-> 0, arrayBuf |-> 0, vaos |-> <<>>, bufs |-> <<>>]

InitMeshes ==
    /\ m_bMemoryLayoutDone = FALSE
    /\ meshes = [k \in MeshKinds |-> NoMesh]
    /\ gl = InitGL
    /\ loads = 0
    /\ lastOp = [name |-> "ShapeMeshes", args |-> <<>>]
    /\ lastDraws = <<>>
    /\ cerr = <<>>

\* FlagAfterLayout if the layout step marked the layout as done
FlagAfterLayoutSet(done) == TRUE

\* value of m_bMemoryLayoutDone after the loader's layout step: neither the
\* loaders nor SetShaderMemoryLayout assign it
FlagAfterLayout(done) == done

\* glGenVertexArrays(1, &mesh.vao); glBindVertexArray(mesh.vao);
GenAndBindVAO(g) == glBindVertexArray(glGenVertexArrays(g), NextVAO(g))

\* glGenBuffers(1, ...); glBindBuffer(target, id); glBufferData(target, data)
UploadNew(g, target, data) ==
    LET id == NextBuffer(g)
    IN  glBufferData(glBindBuffer(glGenBuffers(g, 1), target, id), target, data)

\* the free specifications bound the number of Load*Mesh calls; PrepareScene,
\* which makes its calls once LoadSceneTextures has returned, is not cut short
LoadsBounded == smPhase = "rendering" \/ loads < MaxLoads

\* common bookkeeping of a Load*Mesh action
Loaded(name, args) ==
    /\ loads' = loads + 1
    /\ lastOp' = [name |-> name, args |-> args]
    /\ lastDraws' = <<>>
    /\ cerr' = <<>>
    /\ m_bMemoryLayoutDone' = FlagAfterLayout(m_bMemoryLayoutDone)
    /\ UNCHANGED nonMeshVars

VertexCount(verts) ==
    FloatCount(verts) \div (FloatsPerVertex + FloatsPerNormal + FloatsPerUV)

LoadBoxMesh ==
    /\ LoadsBounded
    /\ LET vao == NextVAO(gl)
           g1 == GenAndBindVAO(gl)
           vbo0 == NextBuffer(g1)
           g2 == glGenBuffers(g1, 2)
           g3 == glBufferData(glBindBuffer(g2, "GL_ARRAY_BUFFER", vbo0),
                              "GL_ARRAY_BUFFER", BoxVerts)
           g4 == glBufferData(glBindBuffer(g3, "GL_ELEMENT_ARRAY_BUFFER", vbo0 + 1),
                              "GL_ELEMENT_ARRAY_BUFFER", BoxIndices)
       IN  /\ gl' = LayoutIfNotDone(g4, m_bMemoryLayoutDone)
           /\ meshes' = [meshes EXCEPT !["Box"] =
                  [@ EXCEPT !.vao = vao, !.vbos = <<vbo0, vbo0 + 1>>,
                            !.nVertices = VertexCount(BoxVerts),
                            !.nIndices = Len(BoxIndices)]]
    /\ Loaded("LoadBoxMesh", <<>>)

LoadConeMesh(numSlicesArg) ==
    /\ LoadsBounded
    /\ LET numSlices == ClampSlices(numSlicesArg)
           vertices == ConeVertices(numSlices)
           vao == NextVAO(gl)
           g1 == GenAndBindVAO(gl)
           vbo0 == NextBuffer(g1)
           g2 == UploadNew(g1, "GL_ARRAY_BUFFER", vertices)
           g3 == LayoutIfNotDone(g2, m_bMemoryLayoutDone)
       IN  /\ gl' = glBindVertexArray(g3, 0)
           /\ meshes' = [meshes EXCEPT !["Cone"] =
                  [@ EXCEPT !.numSlices = numSlices, !.vao = vao, !.vbos[1] = vbo0,
                            !.nVertices = VertexCount(vertices),
                            !.nIndices = 0]]
    /\ Loaded("LoadConeMesh", <<numSlicesArg>>)

LoadCylinderMesh(numSlicesArg) ==
    /\ LoadsBounded
    /\ LET numSlices == ClampSlices(numSlicesArg)
           vertices == CylinderVertices(numSlices)
           vao == NextVAO(gl)
           g1 == GenAndBindVAO(gl)
           vbo0 == NextBuffer(g1)
           g2 == UploadNew(g1, "GL_ARRAY_BUFFER", vertices)
           g3 == LayoutIfNotDone(g2, m_bMemoryLayoutDone)
       IN  /\ gl' = glBindVertexArray(g3, 0)
           /\ meshes' = [meshes EXCEPT !["Cylinder"] =
                  [@ EXCEPT !.numSlices = numSlices, !.vao = vao, !.vbos[1] = vbo0,
                            !.nVertices = VertexCount(vertices),
                            !.nIndices = 0]]
    /\ Loaded("LoadCylinderMesh", <<numSlicesArg>>)

LoadPlaneMesh ==
    /\ LoadsBounded
    /\ LET vao == NextVAO(gl)
           g1 == GenAndBindVAO(gl)
           vbo0 == NextBuffer(g1)
           g2 == glGenBuffers(g1, 2)
           g3 == glBufferData(glBindBuffer(g2, "GL_ARRAY_BUFFER", vbo0),
                              "GL_ARRAY_BUFFER", PlaneVerts)
           g4 == glBufferData(glBindBuffer(g3, "GL_ELEMENT_ARRAY_BUFFER", vbo0 + 1),
                              "GL_ELEMENT_ARRAY_BUFFER", PlaneIndices)
           g5 == LayoutIfNotDone(g4, m_bMemoryLayoutDone)
       IN  /\ gl' = glBindVertexArray(g5, 0)
           /\ meshes' = [meshes EXCEPT !["Plane"] =
                  [@ EXCEPT !.vao = vao, !.vbos = <<vbo0, vbo0 + 1>>,
                            !.nVertices = VertexCount(PlaneVerts),
                            !.nIndices = Len(PlaneIndices)]]
    /\ Loaded("LoadPlaneMesh", <<>>)

\* the loaders that upload one vertex array, set nVertices and leave their
\* vertex array bound: prism, 3-sided pyramid
LoadPrismMesh ==
    /\ LoadsBounded
    /\ LET vao == NextVAO(gl)
           g1 == GenAndBindVAO(gl)
           vbo0 == NextBuffer(g1)
           g2 == UploadNew(g1, "GL_ARRAY_BUFFER", PrismVerts)
       IN  /\ gl' = LayoutIfNotDone(g2, m_bMemoryLayoutDone)
           /\ meshes' = [meshes EXCEPT !["Prism"] =
                  [@ EXCEPT !.vao = vao, !.vbos[1] = vbo0,
                            !.nVertices = VertexCount(PrismVerts)]]
    /\ Loaded("LoadPrismMesh", <<>>)

LoadPyramid3Mesh ==
    /\ LoadsBounded
    /\ LET vao == NextVAO(gl)
           g1 == GenAndBindVAO(gl)
           vbo0 == NextBuffer(g1)
           g2 == UploadNew(g1, "GL_ARRAY_BUFFER", Pyramid3Verts)
       IN  /\ gl' = LayoutIfNotDone(g2, m_bMemoryLayoutDone)
           /\ meshes' = [meshes EXCEPT !["Pyramid3"] =
                  [@ EXCEPT !.vao = vao, !.vbos[1] = vbo0,
                            !.nVertices = VertexCount(Pyramid3Verts)]]
    /\ Loaded("LoadPyramid3Mesh", <<>>)

LoadPyramid4Mesh ==
    /\ LoadsBounded
    /\ LET vao == NextVAO(gl)
           g1 == GenAndBindVAO(gl)
           vbo0 == NextBuffer(g1)
           g2 == UploadNew(g1, "GL_ARRAY_BUFFER", Pyramid4Verts)
           g3 == LayoutIfNotDone(g2, m_bMemoryLayoutDone)
       IN  /\ gl' = glBindVertexArray(g3, 0)
           /\ meshes' = [meshes EXCEPT !["Pyramid4"] =
                  [@ EXCEPT !.vao = vao, !.vbos[1] = vbo0,
                            !.nVertices = VertexCount(Pyramid4Verts)]]
    /\ Loaded("LoadPyramid4Mesh", <<>>)

LoadSphereMesh(latitudeSegments, longitudeSegments) ==
    /\ LoadsBounded
    /\ LET vertices == SphereVertices(latitudeSegments, longitudeSegments)
           indices == SphereIndices(latitudeSegments, longitudeSegments)
           vao == NextVAO(gl)
           g1 == GenAndBindVAO(gl)
           vbo0 == NextBuffer(g1)
           g2 == UploadNew(g1, "GL_ARRAY_BUFFER", vertices)
           vbo1 == NextBuffer(g2)
           g3 == UploadNew(g2, "GL_ELEMENT_ARRAY_BUFFER", indices)
           g4 == LayoutIfNotDone(g3, m_bMemoryLayoutDone)
       IN  /\ gl' = glBindVertexArray(g4, 0)
           /\ meshes' = [meshes EXCEPT !["Sphere"] =
                  [@ EXCEPT !.vao = vao, !.vbos = <<vbo0, vbo1>>,
                            !.nVertices = FloatCount(vertices) \div 8,
                            !.nIndices = Len(indices)]]
    /\ Loaded("LoadSphereMesh", <<latitudeSegments, longitudeSegments>>)

LoadTaperedCylinderMesh ==
    /\ LoadsBounded
    /\ LET vao == NextVAO(gl)
           g1 == GenAndBindVAO(gl)
           vbo0 == NextBuffer(g1)
           g2 == UploadNew(g1, "GL_ARRAY_BUFFER", TaperedCylinderVerts)
       IN  /\ gl' = LayoutIfNotDone(g2, m_bMemoryLayoutDone)
           /\ meshes' = [meshes EXCEPT !["TaperedCylinder"] =
                  [@ EXCEPT !.vao = vao, !.vbos[1] = vbo0,
                            !.nVertices = VertexCount(TaperedCylinderVerts),
                            !.nIndices = 0]]
    /\ Loaded("LoadTaperedCylinderMesh", <<>>)

\* The torus keeps its buffer names in locals, sets the three attributes
\* inline, unbinds its vertex array and only then runs the layout step.
LoadTorusMesh(mainSegmentsArg, tubeSegmentsArg) ==
    /\ LoadsBounded
    /\ LET mainSegments == ClampSegments(mainSegmentsArg)
           tubeSegments == ClampSegments(tubeSegmentsArg)
           vertices == TorusVertices(mainSegments, tubeSegments)
           indices == TorusIndices(mainSegments, tubeSegments)
           vao == NextVAO(gl)
           g1 == GenAndBindVAO(gl)
           g2 == UploadNew(g1, "GL_ARRAY_BUFFER", vertices)
           g3 == UploadNew(g2, "GL_ELEMENT_ARRAY_BUFFER", indices)
           stride == SizeofFloat * 8
           g4 == glEnableVertexAttribArray(
                     glVertexAttribPointer(g3, 0, 3, stride, 0), 0)
           g5 == glEnableVertexAttribArray(
                     glVertexAttribPointer(g4, 1, 3, stride, 3 * SizeofFloat), 1)
           g6 == glEnableVertexAttribArray(
                     glVertexAttribPointer(g5, 2, 2, stride, 6 * SizeofFloat), 2)
           g7 == glBindVertexArray(g6, 0)
       IN  /\ gl' = LayoutIfNotDone(g7, m_bMemoryLayoutDone)
           /\ meshes' = [meshes EXCEPT !["Torus"] =
                  [@ EXCEPT !.vao = vao,
                            !.nVertices = FloatCount(vertices) \div 8,
                            !.nIndices = Len(indices)]]
    /\ Loaded("LoadTorusMesh", <<mainSegmentsArg, tubeSegmentsArg>>)

LoadExtraTorusMesh1 ==
    /\ LoadsBounded
    /\ LET vao == NextVAO(gl)
           g1 == GenAndBindVAO(gl)
           vbo0 == NextBuffer(g1)
           g2 == UploadNew(g1, "GL_ARRAY_BUFFER", ExtraTorusVertexList)
       IN  /\ gl' = LayoutIfNotDone(g2, m_bMemoryLayoutDone)
           /\ meshes' = [meshes EXCEPT !["ExtraTorus1"] =
                  [@ EXCEPT !.vao = vao, !.vbos[1] = vbo0,
                            !.nVertices = ExtraTorusVertexList[1].count,
                            !.nIndices = 0]]
    /\ Loaded("LoadExtraTorusMesh1", <<>>)

LoadExtraTorusMesh2 ==
    /\ LoadsBounded
    /\ LET vao == NextVAO(gl)
           g1 == GenAndBindVAO(gl)
           vbo0 == NextBuffer(g1)
           g2 == UploadNew(g1, "GL_ARRAY_BUFFER", ExtraTorusVertexList)
       IN  /\ gl' = LayoutIfNotDone(g2, m_bMemoryLayoutDone)
           /\ meshes' = [meshes EXCEPT !["ExtraTorus2"] =
                  [@ EXCEPT !.vao = vao, !.vbos[1] = vbo0,
                            !.nVertices = ExtraTorusVertexList[1].count,
                            !.nIndices = 0]]
    /\ Loaded("LoadExtraTorusMesh2", <<>>)

(***************************************************************************)
(* Draw operations.  A draw call is recorded with the vertex array it was  *)
(* issued on; glDrawArrays(mode, first, count) reads the vertices          *)
(* first .. first + count - 1.                                             *)
(***************************************************************************)
DrawArrays(vao, mode, first, count) ==
    [call |-> "glDrawArrays", vao |-> vao, mode |-> mode, first |-> first, count |-> count]

When(cond, calls) == IF cond THEN calls ELSE <<>>

\* common bookkeeping of a Draw*Mesh action that binds, draws and unbinds
Drawn(name, args, calls) ==
    /\ gl' = glBindVertexArray(gl, 0)
    /\ lastOp' = [name |-> name, args |-> args]
    /\ lastDraws' = calls
    /\ cerr' = <<>>
    /\ UNCHANGED <<m_bMemoryLayoutDone, meshes, loads, nonMeshVars>>

ConeDrawCalls(mesh, bDrawBottom) ==
    LET bottomVertexCount == mesh.numSlices + 2
        sideVertexCount == mesh.numSlices * 2
    IN  When(bDrawBottom,
             << DrawArrays(mesh.vao, "GL_TRIANGLE_FAN", 0, bottomVertexCount) >>)
        \o << DrawArrays(mesh.vao, "GL_TRIANGLE_STRIP", bottomVertexCount,
                         sideVertexCount) >>

DrawConeMesh(bDrawBottom) ==
    Drawn("DrawConeMesh", <<bDrawBottom>>, ConeDrawCalls(meshes["Cone"], bDrawBottom))

\* CylinderDrawCalls with the side strip counted as in DrawConeMesh (numSlices * 2)
CylinderDrawCallsOpenStrip(mesh, bDrawTop, bDrawBottom, bDrawSides) ==
    LET bottomVertexCount == mesh.numSlices + 2
        topVertexCount == mesh.numSlices + 2
        sideVertexCount == mesh.numSlices * 2
    IN  When(bDrawBottom,
             << DrawArrays(mesh.vao, "GL_TRIANGLE_FAN", 0, bottomVertexCount) >>)
        \o When(bDrawTop,
             << DrawArrays(mesh.vao, "GL_TRIANGLE_FAN", bottomVertexCount,
                           topVertexCount) >>)
        \o When(bDrawSides,
             << DrawArrays(mesh.vao, "GL_TRIANGLE_STRIP",
                           bottomVertexCount + topVertexCount, sideVertexCount) >>)

CylinderDrawCalls(mesh, bDrawTop, bDrawBottom, bDrawSides) ==
    LET bottomVertexCount == mesh.numSlices + 2
        topVertexCount == mesh.numSlices + 2
        sideVertexCount == (mesh.numSlices + 1) * 2
    IN  When(bDrawBottom,
             << DrawArrays(mesh.vao, "GL_TRIANGLE_FAN", 0, bottomVertexCount) >>)
        \o When(bDrawTop,
             << DrawArrays(mesh.vao, "GL_TRIANGLE_FAN", bottomVertexCount,
                           topVertexCount) >>)
        \o When(bDrawSides,
             << DrawArrays(mesh.vao, "GL_TRIANGLE_STRIP",
                           bottomVertexCount + topVertexCount, sideVertexCount) >>)

DrawCylinderMesh(bDrawTop, bDrawBottom, bDrawSides) ==
    Drawn("DrawCylinderMesh", <<bDrawTop, bDrawBottom, bDrawSides>>,
          CylinderDrawCalls(meshes["Cylinder"], bDrawTop, bDrawBottom, bDrawSides))

TaperedCylinderDrawCalls(mesh, bDrawTop, bDrawBottom, bDrawSides) ==
    When(bDrawBottom, << DrawArrays(mesh.vao, "GL_TRIANGLE_FAN", 0, 36) >>)
    \o When(bDrawTop, << DrawArrays(mesh.vao, "GL_TRIANGLE_FAN", 36, 72) >>)
    \o When(bDrawSides, << DrawArrays(mesh.vao, "GL_TRIANGLE_STRIP", 72, 146) >>)

DrawTaperedCylinderMesh(bDrawTop, bDrawBottom, bDrawSides) ==
    Drawn("DrawTaperedCylinderMesh", <<bDrawTop, bDrawBottom, bDrawSides>>,
          TaperedCylinderDrawCalls(meshes["TaperedCylinder"],
                                   bDrawTop, bDrawBottom, bDrawSides))

(***************************************************************************)
(* The other Draw*Mesh functions.  glDrawElements(mode, count) reads the   *)
(* first count entries of the element array of the bound vertex array.  A  *)
(* guarded function writes one line to std::cerr and returns before it     *)
(* binds anything.                                                         *)
(***************************************************************************)
DrawElements(vao, mode, count) ==
    [call |-> "glDrawElements", vao |-> vao, mode |-> mode, count |-> count]

\* the early return of a guarded Draw*Mesh
NotDrawn(name, args, message) ==
    /\ lastOp' = [name |-> name, args |-> args]
    /\ lastDraws' = <<>>
    /\ cerr' = <<message>>
    /\ UNCHANGED <<gl, m_bMemoryLayoutDone, meshes, loads, nonMeshVars>>

DrawBoxMesh ==
    LET mesh == meshes["Box"]
    IN  IF mesh.vao = 0 \/ mesh.nIndices = 0
        THEN NotDrawn("DrawBoxMesh", <<>>, "Error: Box mesh not initialized properly.")
        ELSE Drawn("DrawBoxMesh", <<>>,
                   << DrawElements(mesh.vao, "GL_TRIANGLES", mesh.nIndices) >>)

\* side is the BoxSide value: back = 0 .. front = 5
DrawBoxMeshSide(side) ==
    LET mesh == meshes["Box"]
        sideStartIndices == <<0, 4, 8, 12, 16, 20>>
    IN  IF mesh.vao = 0
        THEN NotDrawn("DrawBoxMeshSide", <<side>>,
                      "Error: Box mesh not initialized properly.")
        ELSE IF side < 0 \/ side > 5
        THEN /\ gl' = glBindVertexArray(glBindVertexArray(gl, mesh.vao), 0)
             /\ lastOp' = [name |-> "DrawBoxMeshSide", args |-> <<side>>]
             /\ lastDraws' = <<>>
             /\ cerr' = << "Error: Invalid box side specified." >>
             /\ UNCHANGED <<m_bMemoryLayoutDone, meshes, loads, nonMeshVars>>
        ELSE Drawn("DrawBoxMeshSide", <<side>>,
                   << DrawArrays(mesh.vao, "GL_TRIANGLE_FAN",
                                 sideStartIndices[side + 1], 4) >>)

DrawBoxMeshLines ==
    LET mesh == meshes["Box"]
    IN  IF mesh.vao = 0 \/ mesh.nIndices = 0
        THEN NotDrawn("DrawBoxMeshLines", <<>>,
                      "Error: Box mesh not initialized properly.")
        ELSE Drawn("DrawBoxMeshLines", <<>>,
                   << DrawElements(mesh.vao, "GL_LINE_STRIP", mesh.nIndices) >>)

DrawConeMeshLines(bDrawBottom) ==
    LET mesh == meshes["Cone"]
        bottomVertexCount == mesh.numSlices + 2
        sideVertexCount == mesh.numSlices * 2
    IN  Drawn("DrawConeMeshLines", <<bDrawBottom>>,
              When(bDrawBottom,
                   << DrawArrays(mesh.vao, "GL_LINES", 0, bottomVertexCount) >>)
              \o << DrawArrays(mesh.vao, "GL_LINE_STRIP", bottomVertexCount,
                               sideVertexCount) >>)

DrawCylinderMeshLines(bDrawTop, bDrawBottom, bDrawSides) ==
    LET mesh == meshes["Cylinder"]
        bottomVertexCount == mesh.numSlices + 2
        topVertexCount == mesh.numSlices + 2
        sideVertexCount == (mesh.numSlices + 1) * 2
    IN  Drawn("DrawCylinderMeshLines", <<bDrawTop, bDrawBottom, bDrawSides>>,
              When(bDrawBottom,
                   << DrawArrays(mesh.vao, "GL_LINE_LOOP", 1, mesh.numSlices) >>)
              \o When(bDrawTop,
                   << DrawArrays(mesh.vao, "GL_LINE_LOOP", bottomVertexCount + 1,
                                 mesh.numSlices) >>)
              \o When(bDrawSides,
                   << DrawArrays(mesh.vao, "GL_LINE_STRIP",
                                 bottomVertexCount + topVertexCount,
                                 sideVertexCount) >>))

DrawPlaneMesh ==
    Drawn("DrawPlaneMesh", <<>>,
          << DrawElements(meshes["Plane"].vao, "GL_TRIANGLE_STRIP",
                          meshes["Plane"].nIndices) >>)

DrawPlaneMeshLines ==
    Drawn("DrawPlaneMeshLines", <<>>,
          << DrawElements(meshes["Plane"].vao, "GL_LINE_STRIP",
                          meshes["Plane"].nIndices) >>)

DrawPrismMesh ==
    Drawn("DrawPrismMesh", <<>>,
          << DrawArrays(meshes["Prism"].vao, "GL_TRIANGLE_STRIP", 0,
                        meshes["Prism"].nVertices) >>)

DrawPrismMeshLines ==
    Drawn("DrawPrismMeshLines", <<>>,
          << DrawArrays(meshes["Prism"].vao, "GL_LINE_STRIP", 0,
                        meshes["Prism"].nVertices) >>)

\* the body shared by the four pyramid draw functions
DrawPyramid(name, kind, mode, message) ==
    LET mesh == meshes[kind]
    IN  IF mesh.nVertices = 0
        THEN NotDrawn(name, <<>>, message)
        ELSE Drawn(name, <<>>, << DrawArrays(mesh.vao, mode, 0, mesh.nVertices) >>)

DrawPyramid3Mesh ==
    DrawPyramid("DrawPyramid3Mesh", "Pyramid3", "GL_TRIANGLE_STRIP",
                "Error: Pyramid mesh not loaded or empty!")

DrawPyramid3MeshLines ==
    DrawPyramid("DrawPyramid3MeshLines", "Pyramid3", "GL_LINE_STRIP",
                "Error: Pyramid mesh not loaded or empty!")

DrawPyramid4Mesh ==
    DrawPyramid("DrawPyramid4Mesh", "Pyramid4", "GL_TRIANGLE_STRIP",
                "Error: Pyramid mesh not loaded or has no vertices!")

DrawPyramid4MeshLines ==
    DrawPyramid("DrawPyramid4MeshLines", "Pyramid4", "GL_LINE_STRIP",
                "Error: Pyramid mesh not loaded or has no vertices!")

\* a DrawSphereMesh without its test of the mesh
DrawSphereMeshUnguarded ==
    Drawn("DrawSphereMesh", <<>>,
          << DrawElements(meshes["Sphere"].vao, "GL_TRIANGLES",
                          meshes["Sphere"].nIndices) >>)

DrawSphereMesh ==
    LET mesh == meshes["Sphere"]
    IN  IF mesh.vao = 0 \/ mesh.nIndices = 0
        THEN NotDrawn("DrawSphereMesh", <<>>,
                      "Error: Sphere mesh VAO or indices not properly initialized.")
        ELSE Drawn("DrawSphereMesh", <<>>,
                   << DrawElements(mesh.vao, "GL_TRIANGLES", mesh.nIndices) >>)

DrawSphereMeshLines ==
    Drawn("DrawSphereMeshLines", <<>>,
          << DrawElements(meshes["Sphere"].vao, "GL_LINE_STRIP",
                          meshes["Sphere"].nIndices) >>)

DrawHalfSphereMesh ==
    LET mesh == meshes["Sphere"]
    IN  IF mesh.vao = 0 \/ mesh.nIndices = 0
        THEN NotDrawn("DrawHalfSphereMesh", <<>>,
                      "Error: Sphere mesh VAO or indices not properly initialized.")
        ELSE Drawn("DrawHalfSphereMesh", <<>>,
                   << DrawElements(mesh.vao, "GL_TRIANGLES", mesh.nIndices \div 2) >>)

DrawHalfSphereMeshLines ==
    LET mesh == meshes["Sphere"]
    IN  IF mesh.vao = 0 \/ mesh.nIndices = 0
        THEN NotDrawn("DrawHalfSphereMeshLines", <<>>,
                      "Error: Sphere mesh VAO or indices not properly initialized.")
        ELSE Drawn("DrawHalfSphereMeshLines", <<>>,
                   << DrawElements(mesh.vao, "GL_LINES", mesh.nIndices \div 2) >>)

DrawTaperedCylinderMeshLines(bDrawTop, bDrawBottom, bDrawSides) ==
    LET mesh == meshes["TaperedCylinder"]
    IN  Drawn("DrawTaperedCylinderMeshLines", <<bDrawTop, bDrawBottom, bDrawSides>>,
              When(bDrawBottom, << DrawArrays(mesh.vao, "GL_LINES", 0, 36) >>)
              \o When(bDrawTop, << DrawArrays(mesh.vao, "GL_LINES", 36, 72) >>)
              \o When(bDrawSides, << DrawArrays(mesh.vao, "GL_LINE_STRIP", 72, 146) >>))

DrawTorusMesh ==
    Drawn("DrawTorusMesh", <<>>,
          << DrawElements(meshes["Torus"].vao, "GL_TRIANGLES",
                          meshes["Torus"].nIndices) >>)

DrawTorusMeshLines ==
    Drawn("DrawTorusMeshLines", <<>>,
          << DrawElements(meshes["Torus"].vao, "GL_LINES",
                          meshes["Torus"].nIndices) >>)

DrawExtraTorusMesh1 ==
    Drawn("DrawExtraTorusMesh1", <<>>,
          << DrawArrays(meshes["ExtraTorus1"].vao, "GL_TRIANGLES", 0,
                        meshes["ExtraTorus1"].nVertices) >>)

DrawExtraTorusMesh2 ==
    Drawn("DrawExtraTorusMesh2", <<>>,
          << DrawArrays(meshes["ExtraTorus2"].vao, "GL_TRIANGLES", 0,
                        meshes["ExtraTorus2"].nVertices) >>)

DrawHalfTorusMesh ==
    Drawn("DrawHalfTorusMesh", <<>>,
          << DrawElements(meshes["Torus"].vao, "GL_TRIANGLES",
                          meshes["Torus"].nIndices \div 2) >>)

DrawHalfTorusMeshLines ==
    Drawn("DrawHalfTorusMeshLines", <<>>,
          << DrawElements(meshes["Torus"].vao, "GL_LINES",
                          meshes["Torus"].nIndices \div 2) >>)

(***************************************************************************)
(* SceneManager textures.  stbi_load is an external collaborator: its      *)
(* result is an input of every CreateGLTexture call: the image pointer,    *)
(* "null" when the file could not be read or decoded, and the number of    *)
(* colour channels it stored in colorChannels (left at 0 on failure).      *)
(***************************************************************************)
ImageResults ==
    {[image |-> "null", colorChannels |-> 0]} \cup
    {[image |-> "data", colorChannels |-> c] : c \in {1, 2, 3, 4}}

\* the calls of LoadSceneTextures, in order
SceneTextures == <<
    [file |-> "textures/floor.png", tag |-> "floor"],
    [file |-> "textures/wallpaper.jpg", tag |-> "wallpaper"],
    [file |-> "textures/ceiling.jpg", tag |-> "ceiling"],
    [file |-> "textures/soda1.png", tag |-> "soda1"],
    [file |-> "textures/soda2.png", tag |-> "soda2"],
    [file |-> "textures/sodatop.png", tag |-> "soda_top"],
    [file |-> "textures/tekken.jpg", tag |-> "tekken"],
    [file |-> "textures/arcade2.png", tag |-> "arcade2"],
    [file |-> "textures/coinslot.png", tag |-> "coin_slot"],
    [file |-> "textures/test2.png", tag |-> "test"],
    [file |-> "textures/testt.jpg", tag |-> "testt"],
    [file |-> "textures/yellow.png", tag |-> "yellow"],
    [file |-> "textures/linen.jpg", tag |-> "linen"],
    [file |-> "textures/leather.jpg", tag |-> "leather"],
    [file |-> "textures/metal2.jpg", tag |-> "metal2"],
    [file |-> "textures/aluminum.png", tag |-> "aluminum"]
>>

\* GL texture objects: texture names are 1, 2, ... in order of generation;
\* deletes counts the glDeleteTextures calls made on the name;
\* bound[u] is the GL_TEXTURE_2D binding of texture unit u, 0 for the default
\* texture; default is the state of that default texture (name 0), which
\* glTexParameteri changes like any other; named holds the texture objects
\* that glBindTexture created for a name glGenTextures never returned
NewTexture ==
    [wrapS |-> "GL_REPEAT", wrapT |-> "GL_REPEAT",
     minFilter |-> "GL_NEAREST_MIPMAP_LINEAR", magFilter |-> "GL_LINEAR",
     image |-> FALSE, mipmaps |-> FALSE, deletes |-> 0]

InitGLTextures ==
    [objs |-> <<>>, active |-> 0, bound |-> <<0>>,
     default |-> NewTexture, named |-> <<>>]

glGenTextures(t) == [t EXCEPT !.objs = Append(@, NewTexture)]

\* units are numbered from 0, bound is indexed from 1
glBindTexture2D(t, id) ==
    [t EXCEPT !.bound =
        [u \in 1..(IF t.active + 1 > Len(@) THEN t.active + 1 ELSE Len(@)) |->
            IF u = t.active + 1 THEN id
            ELSE IF u <= Len(@) THEN @[u] ELSE 0]]

glActiveTexture(t, unit) == [t EXCEPT !.active = unit]

BoundTexture2D(t) == IF t.active + 1 <= Len(t.bound) THEN t.bound[t.active + 1] ELSE 0

\* a glTexParameteri / glTexImage2D / glGenerateMipmap call on the bound texture
SetBoundTexture(t, field, value) ==
    IF BoundTexture2D(t) \in 1..Len(t.objs)
    THEN [t EXCEPT !.objs[BoundTexture2D(t)][field] = value]
    ELSE IF BoundTexture2D(t) = 0
    THEN [t EXCEPT !.default[field] = value]
    ELSE IF BoundTexture2D(t) \in DOMAIN t.named
    THEN [t EXCEPT !.named[BoundTexture2D(t)][field] = value]
    ELSE t

\* glBindTexture with a name that has no texture object yet, where the
\* context accepts such names: the object is created with the initial state
glBindNewTexture2D(t, id) ==
    glBindTexture2D([t EXCEPT !.named = (id :> NewTexture) @@ @], id)

(***************************************************************************)
(* SceneManager::CreateGLTexture on the SceneManager / GL texture state    *)
(* s = [ids, loaded, tex]; the result adds the return value and the line   *)
(* written to std::cout.                                                   *)
(***************************************************************************)
\* CreateGLTexture if the registration ran after the "if (image)" block
CreateGLTextureRegistersAlways(s, filename, tag, image) ==
    [ids |-> [s.ids EXCEPT ![s.loaded + 1] = [ID |-> 0, tag |-> tag]],
     loaded |-> s.loaded + 1,
     tex |-> s.tex,
     ret |-> image.image # "null",
     log |-> IF image.image = "null" THEN "Could not load image"
             ELSE "Successfully loaded image"]

CreateGLTexture(s, filename, tag, image) ==
    IF image.image # "null"
    THEN LET textureID == Len(s.tex.objs) + 1
             t1 == glBindTexture2D(glGenTextures(s.tex), textureID)
             t2 == SetBoundTexture(t1, "wrapS", "GL_REPEAT")
             t3 == SetBoundTexture(t2, "wrapT", "GL_REPEAT")
             t4 == SetBoundTexture(t3, "minFilter", "GL_LINEAR")
             t5 == SetBoundTexture(t4, "magFilter", "GL_LINEAR")
         IN  IF image.colorChannels = 3 \/ image.colorChannels = 4
             THEN LET t6 == SetBoundTexture(t5, "image", TRUE)
                      t7 == SetBoundTexture(t6, "mipmaps", TRUE)
                  IN  [ids |-> [s.ids EXCEPT ![s.loaded + 1] =
                                   [ID |-> textureID, tag |-> tag]],
                       loaded |-> s.loaded + 1,
                       tex |-> glBindTexture2D(t7, 0),
                       ret |-> TRUE,
                       log |-> "Successfully loaded image"]
             ELSE [ids |-> s.ids, loaded |-> s.loaded, tex |-> t5,
                   ret |-> FALSE,
                   log |-> "Not implemented to handle image"]
    ELSE [ids |-> s.ids, loaded |-> s.loaded, tex |-> s.tex,
          ret |-> FALSE,
          log |-> "Could not load image"]

\* SceneManager::BindGLTextures
RECURSIVE BindLoop(_, _, _, _)
BindLoop(i, loaded, ids, t) ==
    IF i < loaded
    THEN BindLoop(i + 1, loaded, ids,
                  glBindTexture2D(glActiveTexture(t, i), ids[i + 1].ID))
    ELSE t

BindGLTextures(s) == BindLoop(0, s.loaded, s.ids, s.tex)

\* SceneManager::DestroyGLTextures
RECURSIVE DeleteLoop(_, _, _, _)
DeleteLoop(i, loaded, ids, t) ==
    IF i < loaded
    THEN DeleteLoop(i + 1, loaded, ids,
             IF ids[i + 1].ID \in 1..Len(t.objs)
             THEN [t EXCEPT !.objs[ids[i + 1].ID].deletes = @ + 1,
                            !.bound = [u \in 1..Len(@) |->
                                          IF @[u] = ids[i + 1].ID THEN 0 ELSE @[u]]]
             ELSE t)
    ELSE t

DestroyGLTextures(s) == DeleteLoop(0, s.loaded, s.ids, s.tex)

\* SceneManager::FindTextureID / FindTextureSlot: the while loop over the
\* registered entries, from index 0, stopping at the first entry with the tag
RECURSIVE FindLoop(_, _, _, _)
FindLoop(index, loaded, ids, tag) ==
    IF index < loaded
    THEN IF ids[index + 1].tag = tag THEN index
         ELSE FindLoop(index + 1, loaded, ids, tag)
    ELSE -1

\* FindTextureSlot if the loop kept the last entry with the tag
FindTextureSlotLastMatch(s, tag) ==
    LET hits == {i \in 0..(s.loaded - 1) : s.ids[i + 1].tag = tag}
    IN  IF hits = {} THEN -1 ELSE CHOOSE i \in hits : \A j \in hits : j <= i

FindTextureSlot(s, tag) == FindLoop(0, s.loaded, s.ids, tag)

FindTextureID(s, tag) ==
    LET index == FindLoop(0, s.loaded, s.ids, tag)
    IN  IF index = -1 THEN -1 ELSE s.ids[index + 1].ID

(***************************************************************************)
(* SceneManager state and the steps of its life: the constructor, the 16   *)
(* CreateGLTexture calls of LoadSceneTextures (one step per call, because  *)
(* each call reads its own input from stbi_load), the BindGLTextures call  *)
(* that ends LoadSceneTextures, and the destructor.  texPc is the number   *)
(* of CreateGLTexture calls LoadSceneTextures has made so far.             *)
(***************************************************************************)
InitTextures ==
    /\ m_textureIDs = [i \in 1..NumTextureSlots |-> [ID |-> -1, tag |-> "/0"]]
    /\ m_loadedTextures = 0
    /\ gltex = InitGLTextures
    /\ smPhase = "LoadSceneTextures"
    /\ texPc = 0
    /\ bReturn = FALSE
    /\ stbImage = [image |-> "none", colorChannels |-> 0]
    /\ texLog = [msg |-> "", file |-> ""]
    /\ texRounds = 0

\* CreateGLTexture calls made on this SceneManager so far
CallsMade == texRounds * Len(SceneTextures) + texPc

\* does CreateGLTexture reach the registration lines for this image
Registers(image) == image.image # "null" /\ image.colorChannels \in {3, 4}

SceneState == [ids |-> m_textureIDs, loaded |-> m_loadedTextures, tex |-> gltex]

\* the next "bReturn = CreateGLTexture(file, tag);" line of LoadSceneTextures
LoadSceneTexturesCall(image) ==
    /\ smPhase = "LoadSceneTextures"
    /\ texPc < Len(SceneTextures)
    /\ ~Registers(image) => CallsMade - m_loadedTextures < MaxFailedLoads
    /\ Registers(image) => m_loadedTextures < NumTextureSlots
    /\ LET call == SceneTextures[texPc + 1]
           r == CreateGLTexture(SceneState, call.file, call.tag, image)
       IN  /\ m_textureIDs' = r.ids
           /\ m_loadedTextures' = r.loaded
           /\ gltex' = r.tex
           /\ bReturn' = r.ret
           /\ texLog' = [msg |-> r.log, file |-> call.file]
    /\ stbImage' = image
    /\ texPc' = texPc + 1
    /\ UNCHANGED <<smPhase, texRounds, nonTexVars>>

(***************************************************************************)
(* A CreateGLTexture call that registers while m_loadedTextures is already *)
(* the number of entries of m_textureIDs: the code has no bounds check, so *)
(* the two registration writes go to m_textureIDs[16], outside the table.  *)
(* That is undefined behaviour; the outcomes kept here are "stray" (the    *)
(* writes land in whatever memory follows the table, the table itself is   *)
(* unchanged and the counter is incremented) and "stopped" (the process is *)
(* stopped at the write).  Nothing is modelled after either.               *)
(***************************************************************************)
OverflowOutcomes == {"stray", "stopped"}

CreateGLTextureOverflow(image, outcome) ==
    /\ smPhase = "LoadSceneTextures"
    /\ texPc < Len(SceneTextures)
    /\ Registers(image)
    /\ m_loadedTextures >= NumTextureSlots
    /\ LET call == SceneTextures[texPc + 1]
           r == CreateGLTexture(SceneState, call.file, call.tag, image)
       IN  /\ gltex' = r.tex
           /\ texLog' = [msg |-> r.log, file |-> call.file]
           /\ IF outcome = "stray"
              THEN /\ m_loadedTextures' = r.loaded
                   /\ bReturn' = r.ret
                   /\ smPhase' = "overflowed"
              ELSE /\ UNCHANGED <<m_loadedTextures, bReturn>>
                   /\ smPhase' = "stopped"
    /\ stbImage' = image
    /\ texPc' = texPc + 1
    /\ UNCHANGED <<m_textureIDs, texRounds, nonTexVars>>

\* LoadSceneTextures (PrepareScene) is invoked again on the same SceneManager
LoadSceneTexturesAgain ==
    /\ smPhase = "rendering"
    /\ texRounds < MaxReloads
    /\ smPhase' = "LoadSceneTextures"
    /\ texPc' = 0
    /\ texRounds' = texRounds + 1
    /\ UNCHANGED <<m_textureIDs, m_loadedTextures, gltex, bReturn, stbImage,
                   texLog, nonTexVars>>

\* the BindGLTextures() line that ends LoadSceneTextures
LoadSceneTexturesBind ==
    /\ smPhase = "LoadSceneTextures"
    /\ texPc = Len(SceneTextures)
    /\ gltex' = BindGLTextures(SceneState)
    /\ smPhase' = "rendering"
    /\ UNCHANGED <<m_textureIDs, m_loadedTextures, texPc, bReturn, stbImage,
                   texLog, texRounds, nonTexVars>>

\* SceneManager::~SceneManager
DestroySceneManager ==
    /\ smPhase = "rendering"
    /\ gltex' = DestroyGLTextures(SceneState)
    /\ m_loadedTextures' = 0
    /\ smPhase' = "destroyed"
    /\ UNCHANGED <<m_textureIDs, texPc, bReturn, stbImage, texLog, texRounds,
                   nonTexVars>>

(***************************************************************************)
(* The camera (camera.h).  Floats are kept as scaled integers: direction   *)
(* vectors (Front, Up, Right, WorldUp) and sines / cosines in              *)
(* ten-thousandths, Position in millionths, angles in degrees, Zoom as it  *)
(* is, MovementSpeed in tenths (SPEED is 2.5), times in tenths of a second *)
(* and MouseSensitivity in tenths.  With a direction in ten-thousandths    *)
(* and a velocity (MovementSpeed * deltaTime) in hundredths,               *)
(* direction * velocity is a displacement in millionths.  Divisions round  *)
(* to the nearest integer.                                                 *)
(***************************************************************************)
DirScale == 10000
SpeedScale == 10
PosScale == 1000000

RoundDiv(n, d) ==
    IF n >= 0 THEN (2 * n + d) \div (2 * d) ELSE -((2 * (-n) + d) \div (2 * d))

RECURSIVE ISqrtBetween(_, _, _)
ISqrtBetween(x, lo, hi) ==
    IF lo >= hi THEN lo
    ELSE LET mid == (lo + hi + 1) \div 2
         IN  IF mid * mid <= x THEN ISqrtBetween(x, mid, hi)
             ELSE ISqrtBetween(x, lo, mid - 1)

\* length of a vector of 32-bit squared length, rounded down
Length(v) == ISqrtBetween(v[1] * v[1] + v[2] * v[2] + v[3] * v[3], 0, 46340)

Vec3(x, y, z) == <<x, y, z>>
Vec3Add(a, b) == <<a[1] + b[1], a[2] + b[2], a[3] + b[3]>>
Vec3Sub(a, b) == <<a[1] - b[1], a[2] - b[2], a[3] - b[3]>>
Vec3Times(a, k) == <<a[1] * k, a[2] * k, a[3] * k>>

\* glm::cross of two direction vectors
glmCross(a, b) ==
    << RoundDiv(a[2] * b[3] - a[3] * b[2], DirScale),
       RoundDiv(a[3] * b[1] - a[1] * b[3], DirScale),
       RoundDiv(a[1] * b[2] - a[2] * b[1], DirScale) >>

\* glm::normalize; a vector of length 0 (no such vector reaches it) is kept
glmNormalize(v) ==
    LET len == Length(v)
    IN  IF len = 0 THEN v
        ELSE << RoundDiv(v[1] * DirScale, len), RoundDiv(v[2] * DirScale, len),
                RoundDiv(v[3] * DirScale, len) >>

\* cos and sin of the angles the mouse inputs of the model produce:
\* multiples of 90 degrees, and 1 and 89 degrees either side of 0
Turn(deg) == ((deg % 360) + 360) % 360

CosDeg(deg) ==
    CASE Turn(deg) = 0 -> 10000
      [] Turn(deg) \in {90, 270} -> 0
      [] Turn(deg) = 180 -> -10000
      [] Turn(deg) \in {1, 359} -> 9998
      [] Turn(deg) \in {89, 271} -> 175

SinDeg(deg) ==
    CASE Turn(deg) \in {0, 180} -> 0
      [] Turn(deg) = 90 -> 10000
      [] Turn(deg) = 270 -> -10000
      [] Turn(deg) = 1 -> 175
      [] Turn(deg) = 359 -> -175
      [] Turn(deg) = 89 -> 9998
      [] Turn(deg) = 271 -> -9998

\* Camera::updateCameraVectors
updateCameraVectors(cam) ==
    LET front == << RoundDiv(CosDeg(cam.Yaw) * CosDeg(cam.Pitch), DirScale),
                    SinDeg(cam.Pitch),
                    RoundDiv(SinDeg(cam.Yaw) * CosDeg(cam.Pitch), DirScale) >>
        Front == glmNormalize(front)
        Right == glmNormalize(glmCross(Front, cam.WorldUp))
        Up == glmNormalize(glmCross(Right, Front))
    IN  [cam EXCEPT !.Front = Front, !.Right = Right, !.Up = Up]

\* Camera::Camera() with its default arguments: SPEED 2.5, SENSITIVITY 0.1,
\* ZOOM 45
NewCamera ==
    updateCameraVectors(
        [Position |-> Vec3(0, 0, 0), Front |-> Vec3(0, 0, -10000),
         Up |-> Vec3(0, 0, 0), Right |-> Vec3(0, 0, 0),
         WorldUp |-> Vec3(0, 10000, 0), Yaw |-> -90, Pitch |-> 0,
         MovementSpeed |-> 25, MouseSensitivity |-> 1, Zoom |-> 45])

\* Camera::ProcessKeyboard
ProcessKeyboard(cam, direction, deltaTime) ==
    LET velocity == cam.MovementSpeed * deltaTime
    IN  CASE direction = "FORWARD" ->
                 [cam EXCEPT !.Position = Vec3Add(@, Vec3Times(cam.Front, velocity))]
          [] direction = "BACKWARD" ->
                 [cam EXCEPT !.Position = Vec3Sub(@, Vec3Times(cam.Front, velocity))]
          [] direction = "LEFT" ->
                 [cam EXCEPT !.Position = Vec3Sub(@, Vec3Times(cam.Right, velocity))]
          [] direction = "RIGHT" ->
                 [cam EXCEPT !.Position = Vec3Add(@, Vec3Times(cam.Right, velocity))]
          [] direction = "UP" ->
                 [cam EXCEPT !.Position = Vec3Add(@, Vec3Times(cam.Up, velocity))]
          [] direction = "DOWN" ->
                 [cam EXCEPT !.Position = Vec3Sub(@, Vec3Times(cam.Up, velocity))]

\* Camera::ProcessMouseMovement with constrainPitch = true; offsets in pixels
ProcessMouseMovement(cam, xoffset, yoffset) ==
    LET yaw == cam.Yaw + RoundDiv(xoffset * cam.MouseSensitivity, 10)
        pitch == cam.Pitch + RoundDiv(yoffset * cam.MouseSensitivity, 10)
        constrained == IF pitch > 89 THEN 89 ELSE IF pitch < -89 THEN -89 ELSE pitch
    IN  updateCameraVectors([cam EXCEPT !.Yaw = yaw, !.Pitch = constrained])

\* Camera::ProcessMouseScroll (not called by ViewManager)
ProcessMouseScroll(cam, yoffset) ==
    LET speed == cam.MovementSpeed - yoffset * SpeedScale
    IN  [cam EXCEPT !.MovementSpeed =
            IF speed < 1 * SpeedScale THEN 1 * SpeedScale
            ELSE IF speed > 45 * SpeedScale THEN 45 * SpeedScale ELSE speed]

\* Camera::ProcessMousePress (not called by ViewManager)
ProcessMousePress(cam, leftButtonPressed, rightButtonPressed) ==
    IF rightButtonPressed /\ cam.Zoom # 45 THEN [cam EXCEPT !.Zoom = 45]
    ELSE IF rightButtonPressed /\ cam.Zoom = 45 THEN [cam EXCEPT !.Zoom = 80]
    ELSE cam

(***************************************************************************)
(* ViewManager (ViewManager.cpp): the file-scope globals, the constructor, *)
(* the four GLFW callbacks and the per-frame PrepareSceneView.             *)
(***************************************************************************)
WINDOW_WIDTH == 1500
WINDOW_HEIGHT == 1200

GLFW_MOUSE_BUTTON_LEFT == 0
GLFW_MOUSE_BUTTON_RIGHT == 1
GLFW_MOUSE_BUTTON_MIDDLE == 2
GLFW_RELEASE == 0
GLFW_PRESS == 1

\* the events the model delivers
MouseButtons == {GLFW_MOUSE_BUTTON_LEFT, GLFW_MOUSE_BUTTON_RIGHT, GLFW_MOUSE_BUTTON_MIDDLE}
ButtonActions == {GLFW_RELEASE, GLFW_PRESS}
ScrollOffsets == {-1, 1}
CursorXs == {750, 1650}
CursorYs == {600, 1500}
WindowSizes == {<<800, 600>>}
FrameTenths == {1, 2}
KeySets ==
    {{}} \cup {{k} : k \in {"ESCAPE", "W", "S", "A", "D", "Q", "E", "O", "I", "U", "P"}}
         \cup {{"O", "P"}, {"I", "P"}, {"U", "P"}, {"O", "U"}, {"Q", "E"}, {"W", "P"}}

NoEvent ==
    [kind |-> "none", button |-> -1, action |-> -1, yOffset |-> 0, keys |-> {}]

\* uniforms of the shader program: unset uniforms read as zero / false
InitShader ==
    [view |-> [eye |-> Vec3(0, 0, 0), center |-> Vec3(0, 0, 0), up |-> Vec3(0, 0, 0)],
     projection |-> [kind |-> "unset", fovy |-> 0, right |-> 0, top |-> 0],
     viewPosition |-> Vec3(0, 0, 0),
     bUseTexture |-> FALSE, objectTexture |-> 0, UVscale |-> <<0, 0>>,
     spotLight |-> [bActive |-> FALSE, position |-> Vec3(0, 0, 0),
                    direction |-> Vec3(0, 0, 0)]]

\* ViewManager::ViewManager
NewViewCamera ==
    [NewCamera EXCEPT !.Position = Vec3(0, 10 * PosScale, 12 * PosScale),
                      !.Front = Vec3(0, -5000, -20000),
                      !.Up = Vec3(0, 10000, 0),
                      !.Zoom = 80,
                      !.MovementSpeed = 20 * SpeedScale]

InitView ==
    /\ g_pCamera = NewViewCamera
    /\ gLastX = WINDOW_WIDTH \div 2
    /\ gLastY = WINDOW_HEIGHT \div 2
    /\ gFirstMouse = TRUE
    /\ gDeltaTime = 0
    /\ gLastFrame = 0
    /\ bOrthographicProjection = FALSE
    /\ window = [shouldClose |-> FALSE, viewport |-> <<0, 0, WINDOW_WIDTH, WINDOW_HEIGHT>>]
    /\ shader = InitShader
    /\ viewSteps = 0
    /\ lastEvent = NoEvent

\* the value of g_pCamera once the camera is deleted
NULL == [null |-> TRUE]

\* events and frames are delivered while the ViewManager exists
ViewManagerAlive == g_pCamera # NULL

\* a button callback that toggles on every event of the right button
ZoomAfterButtonAnyAction(cam, button, action) ==
    IF button = GLFW_MOUSE_BUTTON_RIGHT
    THEN IF cam.Zoom # 45 THEN 45 ELSE 80
    ELSE cam.Zoom

\* the Zoom the button callback leaves
ZoomAfterButton(cam, button, action) ==
    IF button = GLFW_MOUSE_BUTTON_RIGHT /\ action = GLFW_PRESS
    THEN LET rightButtonPressed == button # 0
         IN  IF rightButtonPressed /\ cam.Zoom # 45 THEN 45
             ELSE IF rightButtonPressed /\ cam.Zoom = 45 THEN 80
             ELSE cam.Zoom
    ELSE cam.Zoom

\* ViewManager::Mouse_Button_Callback
Mouse_Button_Callback(button, action) ==
    /\ ViewManagerAlive
    /\ viewSteps < MaxSteps
    /\ g_pCamera' = [g_pCamera EXCEPT !.Zoom = ZoomAfterButton(g_pCamera, button, action)]
    /\ lastEvent' = [NoEvent EXCEPT !.kind = "button", !.button = button, !.action = action]
    /\ viewSteps' = viewSteps + 1
    /\ UNCHANGED <<gLastX, gLastY, gFirstMouse, gDeltaTime, gLastFrame,
                   bOrthographicProjection, window, shader, nonViewVars>>

\* ViewManager::Window_Resize_Callback
Window_Resize_Callback(width, height) ==
    /\ ViewManagerAlive
    /\ viewSteps < MaxSteps
    /\ window' = [window EXCEPT !.viewport = <<0, 0, width, height>>]
    /\ lastEvent' = [NoEvent EXCEPT !.kind = "resize"]
    /\ viewSteps' = viewSteps + 1
    /\ UNCHANGED <<g_pCamera, gLastX, gLastY, gFirstMouse, gDeltaTime, gLastFrame,
                   bOrthographicProjection, shader, nonViewVars>>

\* the MovementSpeed the scroll callback leaves
SpeedAfterScroll(cam, yOffset) ==
    LET added == cam.MovementSpeed + yOffset * SpeedScale
        atLeast == IF added < 1 * SpeedScale THEN 1 * SpeedScale ELSE added
    IN  IF atLeast > 45 * SpeedScale THEN 45 * SpeedScale ELSE atLeast

\* ViewManager::Mouse_Scroll_Wheel_Callback
Mouse_Scroll_Wheel_Callback(yOffset) ==
    /\ ViewManagerAlive
    /\ viewSteps < MaxSteps
    /\ g_pCamera' = [g_pCamera EXCEPT !.MovementSpeed = SpeedAfterScroll(g_pCamera, yOffset)]
    /\ lastEvent' = [NoEvent EXCEPT !.kind = "scroll", !.yOffset = yOffset]
    /\ viewSteps' = viewSteps + 1
    /\ UNCHANGED <<gLastX, gLastY, gFirstMouse, gDeltaTime, gLastFrame,
                   bOrthographicProjection, window, shader, nonViewVars>>

\* ViewManager::Mouse_Position_Callback
\* a cursor callback without the first-event test: the first offset is taken
\* from the initial gLastX, gLastY
Mouse_Position_Callback_NoFirstTest(xMousePos, yMousePos) ==
    LET xOffset == xMousePos - gLastX
        yOffset == gLastY - yMousePos
    IN  /\ ViewManagerAlive
        /\ viewSteps < MaxSteps
        /\ gFirstMouse' = FALSE
        /\ gLastX' = xMousePos
        /\ gLastY' = yMousePos
        /\ g_pCamera' = ProcessMouseMovement(g_pCamera, xOffset, yOffset)
        /\ lastEvent' = [NoEvent EXCEPT !.kind = "cursor"]
        /\ viewSteps' = viewSteps + 1
        /\ UNCHANGED <<gDeltaTime, gLastFrame, bOrthographicProjection, window,
                       shader, nonViewVars>>

\* ViewManager::Mouse_Position_Callback
Mouse_Position_Callback(xMousePos, yMousePos) ==
    LET lastX == IF gFirstMouse THEN xMousePos ELSE gLastX
        lastY == IF gFirstMouse THEN yMousePos ELSE gLastY
        xOffset == xMousePos - lastX
        yOffset == lastY - yMousePos
    IN  /\ ViewManagerAlive
        /\ viewSteps < MaxSteps
        /\ gFirstMouse' = FALSE
        /\ gLastX' = xMousePos
        /\ gLastY' = yMousePos
        /\ g_pCamera' = ProcessMouseMovement(g_pCamera, xOffset, yOffset)
        /\ lastEvent' = [NoEvent EXCEPT !.kind = "cursor"]
        /\ viewSteps' = viewSteps + 1
        /\ UNCHANGED <<gDeltaTime, gLastFrame, bOrthographicProjection, window,
                       shader, nonViewVars>>

\* the key tests of ProcessKeyboardEvents act on [cam, ortho, close]; the
\* block of a test runs when its key is down
MoveKey(st, pressed, direction, deltaTime) ==
    [st EXCEPT !.cam = IF pressed THEN ProcessKeyboard(@, direction, deltaTime) ELSE @]

OrthoKey(st, pressed, Position, Up, Front) ==
    [st EXCEPT !.ortho = IF pressed THEN TRUE ELSE @,
               !.cam = IF pressed
                       THEN [@ EXCEPT !.Position = Position, !.Up = Up, !.Front = Front]
                       ELSE @]

\* a P block that leaves the zoom as it is
PerspectiveKeyKeepsZoom(st, pressed) ==
    [st EXCEPT !.ortho = IF pressed THEN FALSE ELSE @,
               !.cam = IF pressed
                       THEN [@ EXCEPT !.Position = Vec3(0, 10 * PosScale, 12 * PosScale),
                                      !.Front = Vec3(0, -5000, -20000),
                                      !.Up = Vec3(0, 10000, 0)]
                       ELSE @]

PerspectiveKey(st, pressed) ==
    [st EXCEPT !.ortho = IF pressed THEN FALSE ELSE @,
               !.cam = IF pressed
                       THEN [@ EXCEPT !.Position = Vec3(0, 10 * PosScale, 12 * PosScale),
                                      !.Front = Vec3(0, -5000, -20000),
                                      !.Up = Vec3(0, 10000, 0),
                                      !.Zoom = 80]
                       ELSE @]

\* the key tests of ProcessKeyboardEvents that come before the P test
KeysBeforeP(cam, ortho, close, keys, deltaTime) ==
    LET s0 == [cam |-> cam, ortho |-> ortho, close |-> close]
        s1 == [s0 EXCEPT !.close = IF "ESCAPE" \in keys THEN TRUE ELSE @]
        s2 == MoveKey(s1, "W" \in keys, "FORWARD", deltaTime)
        s3 == MoveKey(s2, "S" \in keys, "BACKWARD", deltaTime)
        s4 == MoveKey(s3, "A" \in keys, "LEFT", deltaTime)
        s5 == MoveKey(s4, "D" \in keys, "RIGHT", deltaTime)
        s6 == MoveKey(s5, "Q" \in keys, "UP", deltaTime)
        s7 == MoveKey(s6, "E" \in keys, "DOWN", deltaTime)
        s8 == OrthoKey(s7, "O" \in keys, Vec3(0, 5 * PosScale, 12 * PosScale),
                       Vec3(0, 10000, 0), Vec3(0, 0, -10000))
        s9 == OrthoKey(s8, "I" \in keys, Vec3(12 * PosScale, 5 * PosScale, 0),
                       Vec3(0, 10000, 0), Vec3(-10000, 0, 0))
    IN  OrthoKey(s9, "U" \in keys, Vec3(0, 16 * PosScale, 2 * PosScale),
                 Vec3(-10000, 0, 0), Vec3(0, -10000, 0))

\* a keyboard handler in which an orthographic key held with P wins
ProcessKeyboardEventsOrthoWins(cam, ortho, close, keys, deltaTime) ==
    PerspectiveKey(KeysBeforeP(cam, ortho, close, keys, deltaTime),
                   "P" \in keys /\ keys \cap {"O", "I", "U"} = {})

\* ViewManager::ProcessKeyboardEvents: the P test comes last
ProcessKeyboardEvents(cam, ortho, close, keys, deltaTime) ==
    PerspectiveKey(KeysBeforeP(cam, ortho, close, keys, deltaTime), "P" \in keys)

\* Camera::GetViewMatrix: the arguments handed to glm::lookAt
GetViewMatrix(cam) ==
    [eye |-> cam.Position,
     center |-> Vec3Add(cam.Position, Vec3Times(cam.Front, PosScale \div DirScale)),
     up |-> cam.Up]

\* the projection PrepareSceneView defines; right and top in thousandths
ProjectionMatrix(cam, ortho) ==
    IF ortho = FALSE
    THEN [kind |-> "perspective", fovy |-> cam.Zoom, right |-> 0, top |-> 0]
    ELSE [kind |-> "ortho", fovy |-> 0,
          right |-> RoundDiv(WINDOW_WIDTH * 1000, 2 * cam.Zoom),
          top |-> RoundDiv(WINDOW_HEIGHT * 1000, 2 * cam.Zoom)]

\* ViewManager::PrepareSceneView; deltaTime is what glfwGetTime advanced by
PrepareSceneView(keys, deltaTime) ==
    LET currentFrame == gLastFrame + deltaTime
        after == ProcessKeyboardEvents(g_pCamera, bOrthographicProjection,
                                       window.shouldClose, keys, deltaTime)
    IN  /\ ViewManagerAlive
        /\ viewSteps < MaxSteps
        /\ gDeltaTime' = currentFrame - gLastFrame
        /\ gLastFrame' = currentFrame
        /\ g_pCamera' = after.cam
        /\ bOrthographicProjection' = after.ortho
        /\ window' = [window EXCEPT !.shouldClose = after.close]
        /\ shader' = [shader EXCEPT !.view = GetViewMatrix(after.cam),
                                    !.projection = ProjectionMatrix(after.cam, after.ortho),
                                    !.viewPosition = after.cam.Position]
        /\ lastEvent' = [NoEvent EXCEPT !.kind = "frame", !.keys = keys]
        /\ viewSteps' = viewSteps + 1
        /\ UNCHANGED <<gLastX, gLastY, gFirstMouse, nonViewVars>>

\* ViewManager::~ViewManager: the camera is deleted and g_pCamera is cleared
\* (m_pShaderManager and m_pWindow, which it also clears, are members the
\* model does not keep: the window and the shader program are not destroyed)
DestroyViewManager ==
    /\ ViewManagerAlive
    /\ viewSteps < MaxSteps
    /\ g_pCamera' = NULL
    /\ lastEvent' = [NoEvent EXCEPT !.kind = "destroy"]
    /\ viewSteps' = viewSteps + 1
    /\ UNCHANGED <<gLastX, gLastY, gFirstMouse, gDeltaTime, gLastFrame,
                   bOrthographicProjection, window, shader, nonViewVars>>

NextView ==
    \/ \E button \in MouseButtons, action \in ButtonActions :
           Mouse_Button_Callback(button, action)
    \/ \E size \in WindowSizes : Window_Resize_Callback(size[1], size[2])
    \/ \E yOffset \in ScrollOffsets : Mouse_Scroll_Wheel_Callback(yOffset)
    \/ \E x \in CursorXs, y \in CursorYs : Mouse_Position_Callback(x, y)
    \/ \E keys \in KeySets, deltaTime \in FrameTenths : PrepareSceneView(keys, deltaTime)
    \/ DestroyViewManager

(***************************************************************************)
(* SceneManager::PrepareScene and SceneManager::RenderScene.  PrepareScene *)
(* is LoadSceneTextures (the steps above) followed by seven Load*Mesh      *)
(* calls, one step each.  RenderScene calls RenderWalls, RenderSoda,       *)
(* RenderLamp, RenderChair and RenderArcade, one step each; scene.pc is    *)
(* the number of them the current RenderScene call has made.  Of a Render  *)
(* function the model keeps the statements that set the texture, the UV    *)
(* scale or GL texture state and the Draw*Mesh calls, each with its source *)
(* line; scene.draws is what the most recent Render function drew.         *)
(***************************************************************************)
PrepareSceneLoadCount == 7

InitScene == scene = [pc |-> 0, frames |-> 0, draws |-> <<>>]

\* PrepareScene has returned / has not been called yet
ScenePrepared == smPhase = "rendering" /\ loads = PrepareSceneLoadCount
SceneUntouched == smPhase = "LoadSceneTextures" /\ CallsMade = 0 /\ loads = 0

\* what stbi_load returns for a texture file of the scene: CreateGLTexture
\* looks only at the pointer and at colorChannels, never at the file name,
\* so every file can give every result
SceneImages(tag) == ImageResults

\* the mesh a Draw*Mesh function binds
DrawTargetOwnHalfSphere(fn) ==
    CASE fn = "DrawPlaneMesh" -> "Plane"
      [] fn = "DrawTaperedCylinderMesh" -> "TaperedCylinder"
      [] fn = "DrawCylinderMesh" -> "Cylinder"
      [] fn = "DrawSphereMesh" -> "Sphere"
      [] fn = "DrawHalfSphereMesh" -> "Cone"
      [] fn = "DrawTorusMesh" -> "Torus"
      [] fn = "DrawBoxMesh" -> "Box"
      [] fn = "DrawPrismMesh" -> "Prism"

DrawTarget(fn) ==
    CASE fn = "DrawPlaneMesh" -> "Plane"
      [] fn = "DrawTaperedCylinderMesh" -> "TaperedCylinder"
      [] fn = "DrawCylinderMesh" -> "Cylinder"
      [] fn = "DrawSphereMesh" -> "Sphere"
      [] fn = "DrawHalfSphereMesh" -> "Sphere"
      [] fn = "DrawTorusMesh" -> "Torus"
      [] fn = "DrawBoxMesh" -> "Box"
      [] fn = "DrawPrismMesh" -> "Prism"

\* DrawBoxMesh, DrawSphereMesh and DrawHalfSphereMesh return before drawing
\* when the mesh has no vertex array or no indices; the others always draw
IssuesDraw(fn, mesh) ==
    IF fn \in {"DrawBoxMesh", "DrawSphereMesh", "DrawHalfSphereMesh"}
    THEN ~(mesh.vao = 0 \/ mesh.nIndices = 0)
    ELSE TRUE

\* the line a guarded Draw*Mesh writes to std::cerr before it returns
NotInitializedMessage(fn) ==
    CASE fn \in {"DrawBoxMesh", "DrawBoxMeshSide", "DrawBoxMeshLines"} ->
             "Error: Box mesh not initialized properly."
      [] fn \in {"DrawPyramid3Mesh", "DrawPyramid3MeshLines"} ->
             "Error: Pyramid mesh not loaded or empty!"
      [] fn \in {"DrawPyramid4Mesh", "DrawPyramid4MeshLines"} ->
             "Error: Pyramid mesh not loaded or has no vertices!"
      [] fn \in {"DrawSphereMesh", "DrawHalfSphereMesh", "DrawHalfSphereMeshLines"} ->
             "Error: Sphere mesh VAO or indices not properly initialized."

StmtSetShaderTexture(tag, line) == [op |-> "SetShaderTexture", tag |-> tag, line |-> line]
StmtSetTextureUVScale(u, v, line) == [op |-> "SetTextureUVScale", u |-> u, v |-> v, line |-> line]
StmtDraw(fn, args, line) == [op |-> "Draw", fn |-> fn, args |-> args, line |-> line]
StmtFindTextureSlot(tag, line) == [op |-> "FindTextureSlot", tag |-> tag, line |-> line]
StmtFindTextureID(tag, line) == [op |-> "FindTextureID", tag |-> tag, line |-> line]
StmtActiveTexture(line) == [op |-> "glActiveTexture", line |-> line]
StmtBindTexture(line) == [op |-> "glBindTexture", line |-> line]
StmtTexParameteri(pname, param, line) ==
    [op |-> "glTexParameteri", pname |-> pname, param |-> param, line |-> line]

\* the texture, UV scale, GL texture and draw statements of RenderWalls, in order
RenderWallsStatements == <<
    StmtSetShaderTexture("floor", 504),
    StmtDraw("DrawPlaneMesh", <<>>, 507),
    StmtSetShaderTexture("ceiling", 516),
    StmtDraw("DrawPlaneMesh", <<>>, 517),
    StmtSetShaderTexture("wallpaper", 528),
    StmtDraw("DrawPlaneMesh", <<>>, 529),
    StmtDraw("DrawPlaneMesh", <<>>, 539),
    StmtDraw("DrawPlaneMesh", <<>>, 549)
>>

\* the texture, UV scale, GL texture and draw statements of RenderSoda, in order
RenderSodaStatements == <<
    StmtSetShaderTexture("aluminum", 576),
    StmtDraw("DrawTaperedCylinderMesh", <<TRUE, FALSE, TRUE>>, 577),
    StmtSetShaderTexture("soda1", 586),
    StmtSetTextureUVScale(-1, 1, 587),
    StmtDraw("DrawCylinderMesh", <<>>, 589),
    StmtSetTextureUVScale(1, 1, 590),
    StmtSetShaderTexture("soda2", 599),
    StmtDraw("DrawHalfSphereMesh", <<>>, 602),
    StmtSetShaderTexture("soda_top", 611),
    StmtDraw("DrawCylinderMesh", <<>>, 613),
    StmtSetShaderTexture("aluminum", 622),
    StmtDraw("DrawTorusMesh", <<>>, 624)
>>

\* the texture, UV scale, GL texture and draw statements of RenderLamp, in order
RenderLampStatements == <<
    StmtSetShaderTexture("leather", 649),
    StmtDraw("DrawCylinderMesh", <<>>, 650),
    StmtSetShaderTexture("metal2", 660),
    StmtDraw("DrawTaperedCylinderMesh", <<>>, 661),
    StmtSetShaderTexture("leather", 671),
    StmtDraw("DrawCylinderMesh", <<>>, 672),
    StmtSetShaderTexture("metal2", 682),
    StmtDraw("DrawCylinderMesh", <<>>, 683),
    StmtDraw("DrawCylinderMesh", <<>>, 693),
    StmtSetShaderTexture("aluminum", 703),
    StmtDraw("DrawCylinderMesh", <<>>, 704),
    StmtSetShaderTexture("metal2", 714),
    StmtDraw("DrawTorusMesh", <<>>, 715),
    StmtDraw("DrawSphereMesh", <<>>, 725),
    StmtSetShaderTexture("linen", 735),
    StmtDraw("DrawTaperedCylinderMesh", <<FALSE, FALSE, TRUE>>, 736),
    StmtSetShaderTexture("metal2", 747),
    StmtDraw("DrawTorusMesh", <<>>, 748)
>>

\* the texture, UV scale, GL texture and draw statements of RenderChair, in order
RenderChairStatements == <<
    StmtSetShaderTexture("metal2", 767),
    StmtDraw("DrawCylinderMesh", <<>>, 768),
    StmtDraw("DrawCylinderMesh", <<>>, 778),
    StmtDraw("DrawCylinderMesh", <<>>, 788),
    StmtDraw("DrawCylinderMesh", <<>>, 798),
    StmtDraw("DrawTorusMesh", <<>>, 809),
    StmtSetShaderTexture("leather", 821),
    StmtDraw("DrawCylinderMesh", <<>>, 822)
>>

\* the texture, UV scale, GL texture and draw statements of RenderArcade, in order
RenderArcadeStatements == <<
    StmtSetShaderTexture("test", 842),
    StmtDraw("DrawBoxMesh", <<>>, 844),
    StmtSetShaderTexture("coin_slot", 853),
    StmtDraw("DrawPlaneMesh", <<>>, 854),
    StmtSetShaderTexture("testt", 864),
    StmtDraw("DrawBoxMesh", <<>>, 865),
    StmtSetShaderTexture("test", 875),
    StmtFindTextureSlot("test", 877),
    StmtFindTextureID("test", 878),
    StmtActiveTexture(879),
    StmtBindTexture(880),
    StmtTexParameteri("wrapS", "GL_MIRRORED_REPEAT", 881),
    StmtTexParameteri("wrapT", "GL_MIRRORED_REPEAT", 882),
    StmtSetTextureUVScale(2, 2, 883),
    StmtDraw("DrawPrismMesh", <<>>, 884),
    StmtTexParameteri("wrapS", "GL_REPEAT", 886),
    StmtTexParameteri("wrapT", "GL_REPEAT", 887),
    StmtSetTextureUVScale(1, 1, 888),
    StmtSetShaderTexture("arcade2", 898),
    StmtDraw("DrawPrismMesh", <<>>, 899),
    StmtDraw("DrawPrismMesh", <<>>, 909),
    StmtSetShaderTexture("test", 919),
    StmtDraw("DrawBoxMesh", <<>>, 920),
    StmtSetShaderTexture("tekken", 930),
    StmtDraw("DrawPlaneMesh", <<>>, 931),
    StmtSetShaderTexture("testt", 941),
    StmtDraw("DrawBoxMesh", <<>>, 942),
    StmtSetShaderTexture("arcade2", 954),
    StmtDraw("DrawBoxMesh", <<>>, 955),
    StmtDraw("DrawBoxMesh", <<>>, 964),
    StmtDraw("DrawBoxMesh", <<>>, 973),
    StmtDraw("DrawBoxMesh", <<>>, 982),
    StmtDraw("DrawCylinderMesh", <<>>, 994),
    StmtSetShaderTexture("aluminum", 1003),
    StmtDraw("DrawCylinderMesh", <<>>, 1004),
    StmtSetShaderTexture("soda2", 1013),
    StmtDraw("DrawSphereMesh", <<>>, 1014),
    StmtSetShaderTexture("yellow", 1024),
    StmtDraw("DrawCylinderMesh", <<>>, 1025),
    StmtDraw("DrawCylinderMesh", <<>>, 1034),
    StmtDraw("DrawCylinderMesh", <<>>, 1043),
    StmtDraw("DrawHalfSphereMesh", <<>>, 1053),
    StmtDraw("DrawHalfSphereMesh", <<>>, 1062),
    StmtDraw("DrawHalfSphereMesh", <<>>, 1071)
>>

\* glBindTexture with a name glGenTextures never returned (the -1 of a failed
\* FindTextureID): an error that leaves the binding, or a new texture object
\* of that name, depending on the context profile
UnknownNameOutcomes == {"rejected", "created"}

\* texture names whose wrap mode is GL_MIRRORED_REPEAT in either direction
IsMirrored(o) == o.wrapS = "GL_MIRRORED_REPEAT" \/ o.wrapT = "GL_MIRRORED_REPEAT"

Mirrored(t) ==
    {id \in 1..Len(t.objs) : IsMirrored(t.objs[id])}
        \cup {id \in DOMAIN t.named : IsMirrored(t.named[id])}
        \cup (IF IsMirrored(t.default) THEN {0} ELSE {})

\* ShaderManager::setSampler2DValue on the sampler uniform objectTexture:
\* glUniform1i with a negative texture unit is an error for a sampler
\* (GL_INVALID_VALUE) and leaves the uniform as it was
setSampler2DValue(sh, value) ==
    IF value < 0 THEN sh ELSE [sh EXCEPT !.objectTexture = value]

\* SceneManager::SetShaderTexture on the uniforms
SetShaderTexture(sh, reg, textureTag) ==
    setSampler2DValue([sh EXCEPT !.bUseTexture = TRUE],
                      FindTextureSlot(reg, textureTag))

\* a SetTextureUVScale that scales the UV scale already in the shader
SetTextureUVScaleRelative(sh, u, v) ==
    [sh EXCEPT !.UVscale = <<@[1] * u, @[2] * v>>]

\* SceneManager::SetTextureUVScale on the uniforms
SetTextureUVScale(sh, u, v) == [sh EXCEPT !.UVscale = <<u, v>>]

\* one statement of a Render function; st holds the uniforms, the GL texture
\* state, the locals textureSlot and textureID and the draws made so far
ExecStatement(st, stmt, reg, outcome) ==
    CASE stmt.op = "SetShaderTexture" ->
             [st EXCEPT !.shader = SetShaderTexture(@, reg, stmt.tag)]
      [] stmt.op = "SetTextureUVScale" ->
             [st EXCEPT !.shader = SetTextureUVScale(@, stmt.u, stmt.v)]
      [] stmt.op = "Draw" ->
             [st EXCEPT !.draws = Append(@,
                 [line |-> stmt.line, fn |-> stmt.fn, args |-> stmt.args,
                  mesh |-> DrawTarget(stmt.fn),
                  vao |-> meshes[DrawTarget(stmt.fn)].vao,
                  drawn |-> IssuesDraw(stmt.fn, meshes[DrawTarget(stmt.fn)]),
                  UVscale |-> st.shader.UVscale,
                  objectTexture |-> st.shader.objectTexture,
                  mirrored |-> Mirrored(st.tex)])]
      [] stmt.op = "FindTextureSlot" ->
             [st EXCEPT !.textureSlot = FindTextureSlot(reg, stmt.tag)]
      [] stmt.op = "FindTextureID" ->
             [st EXCEPT !.textureID = FindTextureID(reg, stmt.tag)]
      [] stmt.op = "glActiveTexture" ->
             IF st.textureSlot >= 0
             THEN [st EXCEPT !.tex = glActiveTexture(@, st.textureSlot)]
             ELSE st
      [] stmt.op = "glBindTexture" ->
             IF \/ st.textureID \in 1..Len(st.tex.objs)
                \/ st.textureID \in DOMAIN st.tex.named
             THEN [st EXCEPT !.tex = glBindTexture2D(@, st.textureID)]
             ELSE IF outcome = "created"
                  THEN [st EXCEPT !.tex = glBindNewTexture2D(@, st.textureID)]
                  ELSE st
      [] stmt.op = "glTexParameteri" ->
             [st EXCEPT !.tex = SetBoundTexture(@, stmt.pname, stmt.param)]

RECURSIVE RunStatements(_, _, _, _, _)
RunStatements(st, stmts, i, reg, outcome) ==
    IF i > Len(stmts) THEN st
    ELSE RunStatements(ExecStatement(st, stmts[i], reg, outcome), stmts, i + 1,
                       reg, outcome)

RenderFunctions ==
    <<"RenderWalls", "RenderSoda", "RenderLamp", "RenderChair", "RenderArcade">>

\* the pc-th call of RenderScene
Render(pc, stmts, outcome) ==
    LET st0 == [shader |-> shader, tex |-> gltex, draws |-> <<>>,
                textureSlot |-> -1, textureID |-> -1]
        st == RunStatements(st0, stmts, 1, SceneState, outcome)
    IN  /\ scene.pc = pc - 1
        /\ scene.frames < MaxFrames
        /\ ScenePrepared \/ SceneUntouched
        /\ shader' = st.shader
        /\ gltex' = st.tex
        /\ scene' = [pc |-> pc % Len(RenderFunctions),
                     frames |-> IF pc = Len(RenderFunctions) THEN scene.frames + 1
                                ELSE scene.frames,
                     draws |-> st.draws]
        /\ gl' = glBindVertexArray(gl, 0)
        /\ lastOp' = [name |-> RenderFunctions[pc], args |-> <<>>]
        /\ lastDraws' = <<>>
        /\ cerr' = LET refused == SelectSeq(st.draws, LAMBDA d : ~d.drawn)
                   IN  [i \in 1..Len(refused) |-> NotInitializedMessage(refused[i].fn)]
        /\ UNCHANGED <<m_bMemoryLayoutDone, meshes, loads,
                       m_textureIDs, m_loadedTextures, smPhase, texPc, bReturn,
                       stbImage, texLog, texRounds,
                       g_pCamera, gLastX, gLastY, gFirstMouse, gDeltaTime,
                       gLastFrame, bOrthographicProjection, window, viewSteps,
                       lastEvent>>

RenderWalls == Render(1, RenderWallsStatements, "rejected")
RenderSoda == Render(2, RenderSodaStatements, "rejected")
RenderLamp == Render(3, RenderLampStatements, "rejected")
RenderChair == Render(4, RenderChairStatements, "rejected")
RenderArcade(outcome) == Render(5, RenderArcadeStatements, outcome)

\* the LoadSceneTextures part of PrepareScene
PrepareSceneTextures ==
    /\ scene.pc = 0
    /\ \/ /\ texPc < Len(SceneTextures)
          /\ \E image \in SceneImages(SceneTextures[texPc + 1].tag) :
                 /\ ~Registers(image) =>
                        texPc - m_loadedTextures < MaxSceneFailures
                 /\ LoadSceneTexturesCall(image)
       \/ LoadSceneTexturesBind

\* the Load*Mesh calls of PrepareScene, in order; the default arguments of
\* LoadCylinderMesh and LoadSphereMesh are not in the sources: the cylinder
\* and the longitude segments take the largest count kept here, the latitude
\* segments an odd or an even count
PrepareSceneMeshes ==
    /\ scene.pc = 0
    /\ smPhase = "rendering"
    /\ \/ loads = 0 /\ LoadPlaneMesh
       \/ loads = 1 /\ LoadTaperedCylinderMesh
       \/ loads = 2 /\ LoadCylinderMesh(MaxSlices)
       \/ loads = 3 /\ \E lat \in (MaxSegments - 1)..MaxSegments :
                           LoadSphereMesh(lat, MaxSegments)
       \/ loads = 4 /\ LoadBoxMesh
       \/ loads = 5 /\ LoadPrismMesh
       \/ loads = 6 /\ LoadTorusMesh(24, 8)

NextScene ==
    \/ PrepareSceneTextures
    \/ PrepareSceneMeshes
    \/ RenderWalls
    \/ RenderSoda
    \/ RenderLamp
    \/ RenderChair
    \/ \E outcome \in UnknownNameOutcomes : RenderArcade(outcome)

(***************************************************************************)
(* The ShapeMeshes loading specification: any Load*Mesh calls in any       *)
(* order.                                                                  *)
(***************************************************************************)
Init == InitMeshes /\ InitTextures /\ InitView /\ InitScene

Next ==
    \/ LoadBoxMesh
    \/ \E n \in 2..MaxSlices : LoadConeMesh(n)
    \/ \E n \in 2..MaxSlices : LoadCylinderMesh(n)
    \/ LoadPlaneMesh
    \/ LoadPrismMesh
    \/ LoadPyramid3Mesh
    \/ LoadPyramid4Mesh
    \/ \E lat \in 1..MaxSegments, lon \in 1..MaxSegments : LoadSphereMesh(lat, lon)
    \/ LoadTaperedCylinderMesh
    \/ \E m \in 2..MaxTorusSegments, t \in 2..MaxTorusSegments : LoadTorusMesh(m, t)
    \/ LoadExtraTorusMesh1
    \/ LoadExtraTorusMesh2

Spec == Init /\ [][Next]_vars

(***************************************************************************)
(* The ShapeMeshes drawing specification: the meshes that are drawn by     *)
(* vertex ranges (cone, cylinder, tapered cylinder) are loaded and drawn   *)
(* in any order.  A Draw*Mesh call reads only the record of its own mesh.  *)
(***************************************************************************)
NextDraw ==
    \/ \E n \in 2..MaxSlices : LoadConeMesh(n)
    \/ \E n \in 2..MaxSlices : LoadCylinderMesh(n)
    \/ LoadTaperedCylinderMesh
    \/ \E b \in BOOLEAN : DrawConeMesh(b)
    \/ \E t \in BOOLEAN, b \in BOOLEAN, s \in BOOLEAN : DrawCylinderMesh(t, b, s)
    \/ \E t \in BOOLEAN, b \in BOOLEAN, s \in BOOLEAN : DrawTaperedCylinderMesh(t, b, s)

SpecDraw == Init /\ [][NextDraw]_vars

(***************************************************************************)
(* Every Load*Mesh and every Draw*Mesh in any order, with up to            *)
(* MaxDrawLoads loads.  The sphere is also loaded with zero segments.      *)
(***************************************************************************)
\* the bDrawTop, bDrawBottom, bDrawSides arguments tried: all parts, one part
DrawPartChoices ==
    {<<TRUE, TRUE, TRUE>>, <<TRUE, FALSE, FALSE>>, <<FALSE, TRUE, FALSE>>,
     <<FALSE, FALSE, TRUE>>}

\* the BoxSide arguments tried: back, top, front and a value past front
BoxSideChoices == {0, 4, 5, 6}

LoadForDraw ==
    /\ loads < MaxDrawLoads
    /\ \/ LoadBoxMesh
       \/ \E n \in 2..MaxSlices : LoadConeMesh(n)
       \/ \E n \in 2..MaxSlices : LoadCylinderMesh(n)
       \/ LoadPlaneMesh
       \/ LoadPrismMesh
       \/ LoadPyramid3Mesh
       \/ LoadPyramid4Mesh
       \/ \E lat \in 0..MaxSegments, lon \in 0..MaxSegments : LoadSphereMesh(lat, lon)
       \/ LoadTaperedCylinderMesh
       \/ \E m \in 2..MaxTorusSegments, t \in 2..MaxTorusSegments : LoadTorusMesh(m, t)
       \/ LoadExtraTorusMesh1
       \/ LoadExtraTorusMesh2

NextDrawAll ==
    \/ LoadForDraw
    \/ DrawBoxMesh
    \/ \E side \in BoxSideChoices : DrawBoxMeshSide(side)
    \/ DrawBoxMeshLines
    \/ \E b \in BOOLEAN : DrawConeMesh(b)
    \/ \E b \in BOOLEAN : DrawConeMeshLines(b)
    \/ \E p \in DrawPartChoices : DrawCylinderMesh(p[1], p[2], p[3])
    \/ \E p \in DrawPartChoices : DrawCylinderMeshLines(p[1], p[2], p[3])
    \/ DrawPlaneMesh
    \/ DrawPlaneMeshLines
    \/ DrawPrismMesh
    \/ DrawPrismMeshLines
    \/ DrawPyramid3Mesh
    \/ DrawPyramid3MeshLines
    \/ DrawPyramid4Mesh
    \/ DrawPyramid4MeshLines
    \/ DrawSphereMesh
    \/ DrawSphereMeshLines
    \/ DrawHalfSphereMesh
    \/ DrawHalfSphereMeshLines
    \/ \E p \in DrawPartChoices : DrawTaperedCylinderMesh(p[1], p[2], p[3])
    \/ \E p \in DrawPartChoices : DrawTaperedCylinderMeshLines(p[1], p[2], p[3])
    \/ DrawTorusMesh
    \/ DrawTorusMeshLines
    \/ DrawExtraTorusMesh1
    \/ DrawExtraTorusMesh2
    \/ DrawHalfTorusMesh
    \/ DrawHalfTorusMeshLines

SpecDrawAll == Init /\ [][NextDrawAll]_vars

(***************************************************************************)
(* The SceneManager texture specification: LoadSceneTextures with any      *)
(* outcome of each image load, then the destructor.                        *)
(***************************************************************************)
NextTex ==
    \/ \E image \in ImageResults : LoadSceneTexturesCall(image)
    \/ LoadSceneTexturesBind
    \/ DestroySceneManager

SpecTex == Init /\ [][NextTex]_vars

(***************************************************************************)
(* The texture specification for any sequence of CreateGLTexture calls:    *)
(* as SpecTex, but LoadSceneTextures may be invoked again, so that more    *)
(* calls are made than one run of LoadSceneTextures makes and a tag can be *)
(* passed twice.                                                           *)
(***************************************************************************)
NextTexCalls ==
    \/ NextTex
    \/ LoadSceneTexturesAgain
    \/ \E image \in ImageResults, outcome \in OverflowOutcomes :
           CreateGLTextureOverflow(image, outcome)

SpecTexCalls == Init /\ [][NextTexCalls]_vars

\* The ViewManager specification: GLFW events and frames in any order.
SpecView == Init /\ [][NextView]_vars

\* The scene specification: PrepareScene once, RenderScene before or after it.
SpecScene == Init /\ [][NextScene]_vars

(***************************************************************************)
(* What a draw reads: the vertex array of a mesh is the buffer that        *)
(* attribute 0 of its vertex array object was pointed at, the index array  *)
(* is the element buffer of that object.  Vertex numbers are 0-based.      *)
(***************************************************************************)
IsLoaded(kind) == meshes[kind].vao # 0

VertexArray(kind) == gl.bufs[gl.vaos[meshes[kind].vao].attribs[0].buf]
IndexArray(kind) == gl.bufs[gl.vaos[meshes[kind].vao].elemBuf]

Vertex(kind, n) == VertexArray(kind)[n + 1]

\* the vertices a glDrawArrays call reads
DrawRange(call) == call.first .. (call.first + call.count - 1)

\* the vertices of a mesh that belong to one section of its vertex table
SectionVertices(kind, section) ==
    {n \in 0..(Len(VertexArray(kind)) - 1) : Vertex(kind, n).section = section}

\* the sections a (bDrawTop, bDrawBottom, bDrawSides) draw is asked for, in call order
SectionsAsked(bDrawTop, bDrawBottom, bDrawSides) ==
    When(bDrawBottom, <<"bottom">>) \o When(bDrawTop, <<"top">>)
        \o When(bDrawSides, <<"sides">>)

\* the three vertex numbers of triangle t (0-based) of an index array
Triangle(indices, t) == << indices[3 * t + 1], indices[3 * t + 2], indices[3 * t + 3] >>

Sub3(a, b) == << a[1] - b[1], a[2] - b[2], a[3] - b[3] >>
Dot3(a, b) == a[1] * b[1] + a[2] * b[2] + a[3] * b[3]
Cross3(a, b) == << a[2] * b[3] - a[3] * b[2],
                   a[3] * b[1] - a[1] * b[3],
                   a[1] * b[2] - a[2] * b[1] >>
Sign(x) == IF x > 0 THEN 1 ELSE IF x < 0 THEN -1 ELSE 0

\* |a - b| <= 1 / segments, for fractions a and b
WithinOneStep(a, b, segments) == Abs(a[1] * b[2] - b[1] * a[2]) * segments <= a[2] * b[2]

FracIs(a, n) == a[1] = n * a[2]

(***************************************************************************)
(* C1.  After LoadSphereMesh(latitudeSegments, longitudeSegments) with     *)
(* both arguments >= 1, the sphere mesh has                                *)
(* nVertices = (latitudeSegments + 1) * (longitudeSegments + 1) and        *)
(* nIndices = 6 * latitudeSegments * longitudeSegments.                    *)
(***************************************************************************)
SphereCounts ==
    lastOp.name = "LoadSphereMesh" =>
        LET lat == lastOp.args[1]
            lon == lastOp.args[2]
        IN  /\ meshes["Sphere"].nVertices = (lat + 1) * (lon + 1)
            /\ meshes["Sphere"].nIndices = 6 * lat * lon
            /\ Len(VertexArray("Sphere")) = meshes["Sphere"].nVertices
            /\ Len(IndexArray("Sphere")) = meshes["Sphere"].nIndices

SphereCountsWitness ==
    /\ lastOp.name = "LoadSphereMesh"
    /\ lastOp.args = <<3, 2>>
    /\ meshes["Sphere"].nVertices = 12
    /\ meshes["Sphere"].nIndices = 36

(***************************************************************************)
(* C2.  After LoadCylinderMesh the mesh has 4n+6 vertices, n the clamped   *)
(* slice count (n >= 3); when DrawCylinderMesh then draws all three parts, *)
(* its ranges are bottom [0, n+2), top [n+2, 2n+4), sides [2n+4, 4n+6):    *)
(* pairwise disjoint, inside the buffer, covering every generated vertex,  *)
(* each range being exactly the vertices generated for that part.          *)
(***************************************************************************)
CylinderRanges ==
    /\ lastOp.name = "LoadCylinderMesh" =>
           LET n == meshes["Cylinder"].numSlices
           IN  /\ n >= 3
               /\ n >= lastOp.args[1]
               /\ (lastOp.args[1] >= 3 => n = lastOp.args[1])
               /\ meshes["Cylinder"].nVertices = 4 * n + 6
               /\ Len(VertexArray("Cylinder")) = 4 * n + 6
    /\ (lastOp.name = "DrawCylinderMesh" /\ lastOp.args = <<TRUE, TRUE, TRUE>>
            /\ IsLoaded("Cylinder")) =>
           LET n == meshes["Cylinder"].numSlices
               last == meshes["Cylinder"].nVertices - 1
           IN  /\ Len(lastDraws) = 3
               /\ DrawRange(lastDraws[1]) = 0..(n + 1)
               /\ DrawRange(lastDraws[2]) = (n + 2)..(2 * n + 3)
               /\ DrawRange(lastDraws[3]) = (2 * n + 4)..(4 * n + 5)
               /\ \A a \in 1..3, b \in 1..3 :
                      a # b => DrawRange(lastDraws[a]) \cap DrawRange(lastDraws[b]) = {}
               /\ \A a \in 1..3 : DrawRange(lastDraws[a]) \subseteq 0..last
               /\ UNION {DrawRange(lastDraws[a]) : a \in 1..3} = 0..last
               /\ DrawRange(lastDraws[1]) = SectionVertices("Cylinder", "bottom")
               /\ DrawRange(lastDraws[2]) = SectionVertices("Cylinder", "top")
               /\ DrawRange(lastDraws[3]) = SectionVertices("Cylinder", "sides")
               /\ \A a \in 1..3 : lastDraws[a].vao = meshes["Cylinder"].vao

CylinderRangesWitness ==
    /\ lastOp.name = "DrawCylinderMesh"
    /\ lastOp.args = <<TRUE, TRUE, TRUE>>
    /\ meshes["Cylinder"].numSlices = 3
    /\ meshes["Cylinder"].nVertices = 18
    /\ Len(lastDraws) = 3

(***************************************************************************)
(* C3.  After LoadConeMesh, the ranges drawn by DrawConeMesh(true) - the   *)
(* bottom fan and the side strip - together cover every generated vertex,  *)
(* the closing pair of the side strip included.                            *)
(***************************************************************************)
ConeDrawCoversAllVertices ==
    (lastOp.name = "DrawConeMesh" /\ lastOp.args = <<TRUE>> /\ IsLoaded("Cone")) =>
        /\ UNION {DrawRange(lastDraws[a]) : a \in 1..Len(lastDraws)}
               = 0..(meshes["Cone"].nVertices - 1)
        /\ DrawRange(lastDraws[1]) = SectionVertices("Cone", "bottom")
        /\ DrawRange(lastDraws[2]) = SectionVertices("Cone", "sides")

(***************************************************************************)
(* C4.  Each draw range of DrawTaperedCylinderMesh covers exactly its own  *)
(* section of the vertex table (bottom 0..35, top 36..71, sides 72..217):  *)
(* it reads no vertex of another section and does not extend past          *)
(* nVertices.                                                              *)
(***************************************************************************)
TaperedCylinderRangesOwnSection ==
    (lastOp.name = "DrawTaperedCylinderMesh" /\ IsLoaded("TaperedCylinder")) =>
        LET asked == SectionsAsked(lastOp.args[1], lastOp.args[2], lastOp.args[3])
        IN  /\ Len(lastDraws) = Len(asked)
            /\ SectionVertices("TaperedCylinder", "bottom") = 0..35
            /\ SectionVertices("TaperedCylinder", "top") = 36..71
            /\ SectionVertices("TaperedCylinder", "sides") = 72..217
            /\ \A a \in 1..Len(lastDraws) :
                   /\ DrawRange(lastDraws[a]) \subseteq
                          0..(meshes["TaperedCylinder"].nVertices - 1)
                   /\ DrawRange(lastDraws[a]) =
                          SectionVertices("TaperedCylinder", asked[a])

(***************************************************************************)
(* C5.  In the box mesh the two triangles of each of the six faces have    *)
(* the same winding: seen along the face normal, their signed areas have   *)
(* the same sign.                                                          *)
(***************************************************************************)
BoxTriangleWinding(t) ==
    LET tri == Triangle(IndexArray("Box"), t)
        a == Vertex("Box", tri[1])
        b == Vertex("Box", tri[2])
        c == Vertex("Box", tri[3])
    IN  Sign(Dot3(Cross3(Sub3(b.pos, a.pos), Sub3(c.pos, a.pos)), a.nrm))

BoxWindingConsistent ==
    IsLoaded("Box") =>
        /\ meshes["Box"].nIndices = 36
        /\ \A face \in 0..5 :
               /\ BoxTriangleWinding(2 * face) # 0
               /\ BoxTriangleWinding(2 * face) = BoxTriangleWinding(2 * face + 1)

(***************************************************************************)
(* C6.  All triangles of the sphere index list have the same orientation   *)
(* in the (lat, lon) grid, and all triangles of the torus index list have  *)
(* the same orientation in the (i, j) grid.                                *)
(***************************************************************************)
GridOrientation(a, b, c) ==
    Sign((b[1] - a[1]) * (c[2] - a[2]) - (b[2] - a[2]) * (c[1] - a[1]))

SphereTriangleOrientation(t) ==
    LET tri == Triangle(IndexArray("Sphere"), t)
        p(n) == << Vertex("Sphere", n).lat, Vertex("Sphere", n).lon >>
    IN  GridOrientation(p(tri[1]), p(tri[2]), p(tri[3]))

TorusTriangleOrientation(t) ==
    LET tri == Triangle(IndexArray("Torus"), t)
        p(n) == << Vertex("Torus", n).i, Vertex("Torus", n).j >>
    IN  GridOrientation(p(tri[1]), p(tri[2]), p(tri[3]))

GridWindingConsistent ==
    /\ IsLoaded("Sphere") =>
           \A t \in 0..(meshes["Sphere"].nIndices \div 3 - 1) :
               /\ SphereTriangleOrientation(t) # 0
               /\ SphereTriangleOrientation(t) = SphereTriangleOrientation(0)
    /\ IsLoaded("Torus") =>
           \A t \in 0..(meshes["Torus"].nIndices \div 3 - 1) :
               /\ TorusTriangleOrientation(t) # 0
               /\ TorusTriangleOrientation(t) = TorusTriangleOrientation(0)

GridWindingWitness ==
    /\ IsLoaded("Sphere")
    /\ IsLoaded("Torus")
    /\ meshes["Sphere"].nIndices >= 24
    /\ meshes["Torus"].nIndices >= 54

(***************************************************************************)
(* C7.  Every vertex normal of the prism points out of the prism: it has a *)
(* positive dot product with the vector from the prism's centroid (the     *)
(* mean of its six corners) to the vertex.                                 *)
(***************************************************************************)
RECURSIVE SumPositions(_)
SumPositions(S) ==
    IF S = {} THEN <<0, 0, 0>>
    ELSE LET p == CHOOSE q \in S : TRUE
             rest == SumPositions(S \ {p})
         IN  << p[1] + rest[1], p[2] + rest[2], p[3] + rest[3] >>

PrismCorners == {Vertex("Prism", n).pos : n \in 0..(meshes["Prism"].nVertices - 1)}

\* (number of corners) * (pos - centroid)
FromPrismCentroid(pos) ==
    LET k == Cardinality(PrismCorners)
        sum == SumPositions(PrismCorners)
    IN  << k * pos[1] - sum[1], k * pos[2] - sum[2], k * pos[3] - sum[3] >>

PrismNormalsOutward ==
    IsLoaded("Prism") =>
        \A n \in 0..(meshes["Prism"].nVertices - 1) :
            Dot3(Vertex("Prism", n).nrm, FromPrismCentroid(Vertex("Prism", n).pos)) > 0

(***************************************************************************)
(* C8.  UV continuity at the seams of the sphere and the torus: the seam   *)
(* column / row is generated twice (counter 0 and counter = segments), so  *)
(* the texture coordinate takes both end values 0 and 1, and inside every  *)
(* triangle of the index list the u values, and the v values, of the three *)
(* vertices differ by at most one step 1 / segments.                       *)
(***************************************************************************)
SphereUVContinuous(latitudeSegments, longitudeSegments) ==
    LET count == meshes["Sphere"].nVertices
        at(n) == Vertex("Sphere", n)
    IN  /\ \A lat \in 0..latitudeSegments :
               /\ \E n \in 0..(count - 1) :
                      at(n).lat = lat /\ at(n).lon = 0 /\ FracIs(at(n).u, 1)
               /\ \E n \in 0..(count - 1) :
                      at(n).lat = lat /\ at(n).lon = longitudeSegments
                          /\ FracIs(at(n).u, 0)
        /\ \A lon \in 0..longitudeSegments :
               /\ \E n \in 0..(count - 1) :
                      at(n).lon = lon /\ at(n).lat = 0 /\ FracIs(at(n).v, 1)
               /\ \E n \in 0..(count - 1) :
                      at(n).lon = lon /\ at(n).lat = latitudeSegments
                          /\ FracIs(at(n).v, 0)
        /\ \A t \in 0..(meshes["Sphere"].nIndices \div 3 - 1) :
               LET tri == Triangle(IndexArray("Sphere"), t)
               IN  \A a \in 1..3, b \in 1..3 :
                       /\ WithinOneStep(at(tri[a]).u, at(tri[b]).u, longitudeSegments)
                       /\ WithinOneStep(at(tri[a]).v, at(tri[b]).v, latitudeSegments)

TorusUVContinuous(mainSegments, tubeSegments) ==
    LET count == meshes["Torus"].nVertices
        at(n) == Vertex("Torus", n)
    IN  /\ \A i \in 0..mainSegments :
               /\ \E n \in 0..(count - 1) :
                      at(n).i = i /\ at(n).j = 0 /\ FracIs(at(n).v, 0)
               /\ \E n \in 0..(count - 1) :
                      at(n).i = i /\ at(n).j = tubeSegments /\ FracIs(at(n).v, 1)
        /\ \A j \in 0..tubeSegments :
               /\ \E n \in 0..(count - 1) :
                      at(n).j = j /\ at(n).i = 0 /\ FracIs(at(n).u, 0)
               /\ \E n \in 0..(count - 1) :
                      at(n).j = j /\ at(n).i = mainSegments /\ FracIs(at(n).u, 1)
        /\ \A t \in 0..(meshes["Torus"].nIndices \div 3 - 1) :
               LET tri == Triangle(IndexArray("Torus"), t)
               IN  \A a \in 1..3, b \in 1..3 :
                       /\ WithinOneStep(at(tri[a]).u, at(tri[b]).u, mainSegments)
                       /\ WithinOneStep(at(tri[a]).v, at(tri[b]).v, tubeSegments)

AtLeast3(n) == IF n < 3 THEN 3 ELSE n

UVSeamContinuity ==
    /\ lastOp.name = "LoadSphereMesh" =>
           SphereUVContinuous(lastOp.args[1], lastOp.args[2])
    /\ lastOp.name = "LoadTorusMesh" =>
           TorusUVContinuous(AtLeast3(lastOp.args[1]), AtLeast3(lastOp.args[2]))

UVSeamWitness ==
    /\ lastOp.name = "LoadSphereMesh"
    /\ lastOp.args = <<3, 3>>
    /\ IsLoaded("Torus")
    /\ meshes["Torus"].nVertices = 16
    /\ Vertex("Sphere", 3).u = <<0, 3>>
    /\ Vertex("Torus", 15).v = <<3, 3>>

(***************************************************************************)
(* C9.  Whatever Load*Mesh calls were made, in whatever order, the vertex  *)
(* array of every loaded mesh carries the one fixed layout: attribute 0 =  *)
(* 3 floats at offset 0, attribute 1 = 3 floats at offset 3 floats,        *)
(* attribute 2 = 2 floats at offset 6 floats, stride 8 floats, all three   *)
(* enabled and reading a buffer that exists.  Attributes are only ever     *)
(* written to the bound vertex array, so the layout was set while that     *)
(* mesh's own vertex array was bound; the flag m_bMemoryLayoutDone did not *)
(* suppress it.                                                            *)
(***************************************************************************)
HasFixedLayout(vao) ==
    /\ vao.attribs[0].size = 3 /\ vao.attribs[0].offset = 0
    /\ vao.attribs[1].size = 3 /\ vao.attribs[1].offset = 3 * 4
    /\ vao.attribs[2].size = 2 /\ vao.attribs[2].offset = 6 * 4
    /\ \A l \in 0..2 :
           /\ vao.attribs[l].stride = 8 * 4
           /\ vao.attribs[l].enabled
           /\ vao.attribs[l].buf \in 1..Len(gl.bufs)
           /\ vao.attribs[l].buf = vao.attribs[0].buf

FixedLayoutOnEveryMesh ==
    /\ \A kind \in MeshKinds :
           IsLoaded(kind) =>
               /\ meshes[kind].vao \in 1..Len(gl.vaos)
               /\ HasFixedLayout(gl.vaos[meshes[kind].vao])
    /\ Len(gl.vaos) = loads
    /\ \A id \in 1..Len(gl.vaos) : HasFixedLayout(gl.vaos[id])

FixedLayoutWitness ==
    /\ loads = 2
    /\ meshes["Torus"].vao = 1
    /\ meshes["Box"].vao = 2
    /\ lastOp.name = "LoadBoxMesh"

(***************************************************************************)
(* C10: when CreateGLTexture cannot load the image (stbi_load returns      *)
(* null) it only logs "Could not load image" and returns false: no GL      *)
(* texture is created or changed, m_textureIDs and m_loadedTextures are    *)
(* unchanged, the same file is not tried again (the next call is for the   *)
(* next file of LoadSceneTextures), and LoadSceneTextures goes on: it only *)
(* reaches BindGLTextures after all 16 calls were made.                    *)
(***************************************************************************)
FailedLoadStep ==
    (texPc' = texPc + 1 /\ stbImage'.image = "null") =>
        /\ gltex' = gltex
        /\ m_textureIDs' = m_textureIDs
        /\ m_loadedTextures' = m_loadedTextures
        /\ bReturn' = FALSE
        /\ texLog' = [msg |-> "Could not load image",
                      file |-> SceneTextures[texPc'].file]
        /\ smPhase' = "LoadSceneTextures"

AllCallsMade == smPhase # "LoadSceneTextures" => texPc = Len(SceneTextures)

CreateGLTextureFailureOnlyLogs == [][FailedLoadStep]_vars /\ []AllCallsMade

\* the first file could not be loaded, the other 15 calls ran and registered
CreateGLTextureFailureWitness ==
    /\ smPhase = "rendering"
    /\ texPc = 16
    /\ m_loadedTextures = 15
    /\ Len(gltex.objs) = 15
    /\ m_textureIDs[1] = [ID |-> 1, tag |-> "wallpaper"]
    /\ m_textureIDs[16] = [ID |-> -1, tag |-> "/0"]


(***************************************************************************)
(* C11.  Once the SceneManager destructor has run, every GL texture object *)
(* that a CreateGLTexture call generated has been deleted by               *)
(* DestroyGLTextures exactly once, whatever the outcome of each call was   *)
(* (loaded, not decodable, unsupported channel count).                     *)
(***************************************************************************)
TexturesDeletedExactlyOnce ==
    smPhase = "destroyed" =>
        \A id \in 1..Len(gltex.objs) : gltex.objs[id].deletes = 1


(***************************************************************************)
(* C12.  After any sequence of CreateGLTexture calls at most 16 textures   *)
(* are registered: m_loadedTextures <= 16, no registration write went      *)
(* outside the 16 entries of m_textureIDs, and textures are bound only to  *)
(* texture units 0..15.                                                    *)
(***************************************************************************)
TexturesWithinTable ==
    /\ m_loadedTextures <= NumTextureSlots
    /\ smPhase \notin {"overflowed", "stopped"}
    /\ \A u \in 1..Len(gltex.bound) : gltex.bound[u] # 0 => u <= NumTextureSlots


(***************************************************************************)
(* C13.  A tag maps to the texture unit its texture is bound to.  For a    *)
(* tag that is registered, FindTextureSlot returns the index of the first  *)
(* registered entry with that tag, FindTextureID returns the ID of that    *)
(* same entry, and once LoadSceneTextures has returned the texture unit of *)
(* that index is bound to the texture with that ID; for a tag that is not  *)
(* registered both lookups return -1.                                      *)
(***************************************************************************)
LookupTags == {SceneTextures[k].tag : k \in 1..Len(SceneTextures)} \cup {"brick"}

RegisteredAt(tag) == {i \in 0..(m_loadedTextures - 1) : m_textureIDs[i + 1].tag = tag}

TagMapsToBoundUnit ==
    smPhase \in {"LoadSceneTextures", "rendering"} =>
        \A tag \in LookupTags :
            LET slot == FindTextureSlot(SceneState, tag)
                id == FindTextureID(SceneState, tag)
            IN  IF RegisteredAt(tag) = {}
                THEN slot = -1 /\ id = -1
                ELSE /\ slot \in RegisteredAt(tag)
                     /\ \A i \in RegisteredAt(tag) : slot <= i
                     /\ id = m_textureIDs[slot + 1].ID
                     /\ smPhase = "rendering" =>
                            /\ slot + 1 <= Len(gltex.bound)
                            /\ gltex.bound[slot + 1] = id
                            /\ id \in 1..Len(gltex.objs)
                            /\ gltex.objs[id].image

\* LoadSceneTextures returned, "soda1" (the fourth call) was not loaded and
\* "soda2" took its slot
TagMapsToBoundUnitWitness ==
    /\ smPhase = "rendering"
    /\ texRounds = 0
    /\ m_loadedTextures = 15
    /\ FindTextureSlot(SceneState, "soda1") = -1
    /\ FindTextureID(SceneState, "soda1") = -1
    /\ FindTextureSlot(SceneState, "soda2") = 3
    /\ FindTextureID(SceneState, "soda2") = 4
    /\ gltex.bound[4] = 4


(***************************************************************************)
(* C14: each press of the right mouse button switches Zoom from 80 to 45   *)
(* or from 45 back to 80, a release of the right button and any event of   *)
(* another button leave Zoom as it is, and Zoom is always 45 or 80 (so two *)
(* successive presses restore the Zoom they started from).                 *)
(***************************************************************************)
IsRightPress(ev) ==
    ev.kind = "button" /\ ev.button = GLFW_MOUSE_BUTTON_RIGHT /\ ev.action = GLFW_PRESS

ButtonStepZoom ==
    lastEvent'.kind = "button" =>
        IF IsRightPress(lastEvent')
        THEN g_pCamera'.Zoom = (IF g_pCamera.Zoom = 80 THEN 45 ELSE 80)
        ELSE g_pCamera'.Zoom = g_pCamera.Zoom

ZoomIs45Or80 == g_pCamera # NULL => g_pCamera.Zoom \in {45, 80}

RightButtonTogglesZoom == [][ButtonStepZoom]_vars /\ []ZoomIs45Or80

\* two right-button presses from the start: 80, 45 and 80 again
RightButtonTogglesZoomWitness ==
    /\ viewSteps = 2
    /\ IsRightPress(lastEvent)
    /\ g_pCamera.Zoom = 80


(***************************************************************************)
(* C15: each press of the left mouse button flips the spotlight's active   *)
(* flag (spotLight.bActive) between on and off.                            *)
(***************************************************************************)
IsLeftPress(ev) ==
    ev.kind = "button" /\ ev.button = GLFW_MOUSE_BUTTON_LEFT /\ ev.action = GLFW_PRESS

LeftPressFlipsSpotLight ==
    IsLeftPress(lastEvent') =>
        shader'.spotLight.bActive = ~shader.spotLight.bActive

LeftButtonTogglesFlashlight == [][LeftPressFlipsSpotLight]_vars


(***************************************************************************)
(* C16: scrolling up (positive yOffset) never increases MovementSpeed and  *)
(* scrolling down (negative yOffset) never decreases it.                   *)
(***************************************************************************)
ScrollStepSpeed ==
    lastEvent'.kind = "scroll" =>
        /\ lastEvent'.yOffset > 0 => g_pCamera'.MovementSpeed <= g_pCamera.MovementSpeed
        /\ lastEvent'.yOffset < 0 => g_pCamera'.MovementSpeed >= g_pCamera.MovementSpeed

ScrollUpSlowerDownFaster == [][ScrollStepSpeed]_vars


(***************************************************************************)
(* C17: the projection mode starts as perspective; a frame with P pressed  *)
(* leaves it perspective, whatever else is held; a frame with O, I or U    *)
(* pressed and P not pressed leaves it orthographic; every other frame and *)
(* every mouse button, cursor, scroll or resize event leaves it unchanged. *)
(* The projection uniform a frame sets is of the mode the frame leaves.    *)
(***************************************************************************)
ProjectionStep ==
    LET ev == lastEvent'
    IN  IF ev.kind = "frame"
        THEN /\ "P" \in ev.keys => bOrthographicProjection' = FALSE
             /\ ("P" \notin ev.keys /\ ev.keys \cap {"O", "I", "U"} # {}) =>
                     bOrthographicProjection' = TRUE
             /\ ev.keys \cap {"O", "I", "U", "P"} = {} =>
                     bOrthographicProjection' = bOrthographicProjection
             /\ shader'.projection.kind =
                     (IF bOrthographicProjection' THEN "ortho" ELSE "perspective")
        ELSE bOrthographicProjection' = bOrthographicProjection

StartsPerspective == viewSteps = 0 => bOrthographicProjection = FALSE

ProjectionToggledByKeysOnly == [][ProjectionStep]_vars /\ []StartsPerspective

\* the third step is a frame with O and P held together, after a cursor event
ProjectionToggledWitness ==
    /\ viewSteps = 3
    /\ lastEvent.kind = "frame"
    /\ lastEvent.keys = {"O", "P"}
    /\ bOrthographicProjection = FALSE
    /\ shader.projection.kind = "perspective"
    /\ gFirstMouse = FALSE
    /\ g_pCamera.Zoom = 80


(***************************************************************************)
(* C18: on a frame where only Q or only E is pressed, only the vertical    *)
(* (y) component of the camera Position changes: x and z stay as they are, *)
(* in every reachable camera state.                                        *)
(***************************************************************************)
VerticalKeyStep ==
    (lastEvent'.kind = "frame" /\ lastEvent'.keys \in {{"Q"}, {"E"}}) =>
        /\ g_pCamera'.Position[1] = g_pCamera.Position[1]
        /\ g_pCamera'.Position[3] = g_pCamera.Position[3]

QAndEMoveStraightUpOrDown == [][VerticalKeyStep]_vars


(***************************************************************************)
(* C19: PrepareScene loads each mesh kind at most once, and once it has    *)
(* returned every Draw*Mesh call a Render function of RenderScene makes    *)
(* (plane, tapered cylinder, cylinder, sphere, half sphere, torus, box,    *)
(* prism) targets a mesh whose Load*Mesh has run: the mesh has its vertex  *)
(* array and the draw is issued on it.                                     *)
(***************************************************************************)
LoadedKinds == {k \in MeshKinds : meshes[k].vao # 0}

RenderFunctionNames == {RenderFunctions[i] : i \in 1..Len(RenderFunctions)}

SceneDrawsTargetLoadedMeshes ==
    /\ loads = Cardinality(LoadedKinds)
    /\ (ScenePrepared /\ lastOp.name \in RenderFunctionNames) =>
           \A i \in 1..Len(scene.draws) :
               /\ IsLoaded(scene.draws[i].mesh)
               /\ scene.draws[i].vao = meshes[scene.draws[i].mesh].vao
               /\ scene.draws[i].drawn

\* RenderSoda after PrepareScene: its half sphere is drawn from the sphere mesh
SceneDrawsWitness ==
    /\ ScenePrepared
    /\ lastOp.name = "RenderSoda"
    /\ Len(scene.draws) = 5
    /\ \E i \in 1..Len(scene.draws) :
           /\ scene.draws[i].fn = "DrawHalfSphereMesh"
           /\ scene.draws[i].mesh = "Sphere"
           /\ scene.draws[i].vao # 0


(***************************************************************************)
(* C20: when RenderSoda or RenderArcade returns, the UVscale uniform is    *)
(* (1, 1) and the wrap mode of every loaded texture is GL_REPEAT in both   *)
(* directions.  Of the draws of a Render function, only the soda body      *)
(* (the DrawCylinderMesh of line 589) is drawn with the scale (-1, 1), and *)
(* only the controls prism (the DrawPrismMesh of line 884) with the scale  *)
(* (2, 2) or with a texture in GL_MIRRORED_REPEAT; when PrepareScene has   *)
(* loaded the texture "test", it is the one mirrored for that draw.  When  *)
(* "test" is not registered the wrap modes go to another texture object    *)
(* (the one left bound, the default texture or a new object named -1);     *)
(* that one is reset as well, so no texture object is left mirrored.       *)
(***************************************************************************)
SodaBodyDrawLine == 589
ControlsPrismDrawLine == 884

LoadedTexturesRepeat ==
    \A i \in 1..m_loadedTextures :
        /\ gltex.objs[m_textureIDs[i].ID].wrapS = "GL_REPEAT"
        /\ gltex.objs[m_textureIDs[i].ID].wrapT = "GL_REPEAT"

TemporaryTextureStateReset ==
    /\ lastOp.name \in {"RenderSoda", "RenderArcade"} =>
           /\ shader.UVscale = <<1, 1>>
           /\ LoadedTexturesRepeat
           /\ Mirrored(gltex) = {}
    /\ lastOp.name \in RenderFunctionNames =>
           \A i \in 1..Len(scene.draws) :
               LET d == scene.draws[i]
               IN  /\ d.UVscale = <<-1, 1>> <=>
                          (lastOp.name = "RenderSoda" /\ d.line = SodaBodyDrawLine)
                   /\ d.UVscale = <<2, 2>> <=>
                          (lastOp.name = "RenderArcade" /\ d.line = ControlsPrismDrawLine)
                   /\ d.mirrored # {} =>
                          (lastOp.name = "RenderArcade" /\ d.line = ControlsPrismDrawLine)
                   /\ (/\ ScenePrepared
                       /\ lastOp.name = "RenderArcade"
                       /\ d.line = ControlsPrismDrawLine
                       /\ FindTextureID(SceneState, "test") # -1) =>
                          d.mirrored = {FindTextureID(SceneState, "test")}

\* RenderArcade has returned after PrepareScene loaded "test": the controls
\* prism was drawn mirrored at scale (2, 2) and both are reset
TemporaryTextureStateWitness ==
    /\ ScenePrepared
    /\ lastOp.name = "RenderArcade"
    /\ shader.UVscale = <<1, 1>>
    /\ LoadedTexturesRepeat
    /\ \E i \in 1..Len(scene.draws) :
           /\ scene.draws[i].line = ControlsPrismDrawLine
           /\ scene.draws[i].UVscale = <<2, 2>>
           /\ scene.draws[i].mirrored = {FindTextureID(SceneState, "test")}

(***************************************************************************)
(* C21: the first mouse-move event is processed with the offsets (0, 0):   *)
(* it leaves Yaw and Pitch as they were and clears gFirstMouse, which no   *)
(* step sets again.  Every later mouse-move event turns the camera by the  *)
(* offset of its position from gLastX, gLastY, which hold the position of  *)
(* the preceding mouse-move event because no other step writes them.       *)
(***************************************************************************)
IsCursorStep == viewSteps' # viewSteps /\ lastEvent'.kind = "cursor"

ConstrainedPitch(pitch) == IF pitch > 89 THEN 89 ELSE IF pitch < -89 THEN -89 ELSE pitch

CursorStepTurn ==
    IF IsCursorStep
    THEN /\ gFirstMouse' = FALSE
         /\ IF gFirstMouse
            THEN /\ g_pCamera'.Yaw = g_pCamera.Yaw
                 /\ g_pCamera'.Pitch = g_pCamera.Pitch
            ELSE /\ g_pCamera'.Yaw = g_pCamera.Yaw +
                        RoundDiv((gLastX' - gLastX) * g_pCamera.MouseSensitivity, 10)
                 /\ g_pCamera'.Pitch = ConstrainedPitch(g_pCamera.Pitch +
                        RoundDiv((gLastY - gLastY') * g_pCamera.MouseSensitivity, 10))
    ELSE /\ UNCHANGED <<gFirstMouse, gLastX, gLastY>>
         /\ g_pCamera' # NULL =>
                /\ g_pCamera'.Yaw = g_pCamera.Yaw
                /\ g_pCamera'.Pitch = g_pCamera.Pitch

FirstMouseMoveOnlyRecords == [][CursorStepTurn]_vars

\* a second mouse-move event 900 pixels to the right of the first one has
\* turned the camera from yaw -90 to yaw 0
FirstMouseMoveWitness ==
    /\ ~gFirstMouse
    /\ lastEvent.kind = "cursor"
    /\ viewSteps >= 2
    /\ gLastX = 1650
    /\ g_pCamera.Yaw = 0

(***************************************************************************)
(* C22: after every frame in which P is down, whatever other keys are down *)
(* in it, the camera's Position, Front, Up and Zoom are the values the     *)
(* ViewManager constructor set, and the frame leaves MovementSpeed, Yaw    *)
(* and Pitch as they were.                                                 *)
(***************************************************************************)
IsFrameWithP == viewSteps' # viewSteps /\ lastEvent'.kind = "frame" /\ "P" \in lastEvent'.keys

PFrameStep ==
    IsFrameWithP =>
        /\ g_pCamera'.Position = NewViewCamera.Position
        /\ g_pCamera'.Front = NewViewCamera.Front
        /\ g_pCamera'.Up = NewViewCamera.Up
        /\ g_pCamera'.Zoom = NewViewCamera.Zoom
        /\ g_pCamera'.MovementSpeed = g_pCamera.MovementSpeed
        /\ g_pCamera'.Yaw = g_pCamera.Yaw
        /\ g_pCamera'.Pitch = g_pCamera.Pitch

PRestoresDefaultView == [][PFrameStep]_vars

\* a frame with O and P down, after the mouse had turned the camera to yaw 0:
\* the constructor's Front is back and the yaw is still 0
PRestoresDefaultViewWitness ==
    /\ lastEvent.kind = "frame"
    /\ lastEvent.keys = {"O", "P"}
    /\ g_pCamera.Yaw = 0
    /\ g_pCamera.Front = NewViewCamera.Front
    /\ g_pCamera.Position = NewViewCamera.Position
    /\ ~bOrthographicProjection

(***************************************************************************)
(* C23: DrawBoxMesh, DrawBoxMeshLines, DrawSphereMesh, DrawHalfSphereMesh, *)
(* DrawPyramid3Mesh and DrawPyramid4Mesh, called while their mesh was      *)
(* never loaded, write one error line to std::cerr and return: the vertex  *)
(* array binding is what it was and no draw call is issued.  Whenever a    *)
(* Draw*Mesh has issued a draw call, vertex array 0 is bound on return.    *)
(***************************************************************************)
GuardedDrawMesh ==
    [DrawBoxMesh |-> "Box", DrawBoxMeshLines |-> "Box", DrawSphereMesh |-> "Sphere",
     DrawHalfSphereMesh |-> "Sphere", DrawPyramid3Mesh |-> "Pyramid3",
     DrawPyramid4Mesh |-> "Pyramid4"]

GuardedDrawOfUnloadedMesh ==
    (/\ lastOp'.name \in DOMAIN GuardedDrawMesh
     /\ meshes[GuardedDrawMesh[lastOp'.name]] = NoMesh) =>
        /\ cerr' = << NotInitializedMessage(lastOp'.name) >>
        /\ lastDraws' = <<>>
        /\ gl' = gl
        /\ meshes' = meshes

DrawLeavesNoVertexArrayBound == lastDraws # <<>> => gl.boundVAO = 0

UnloadedMeshIsNotDrawn ==
    [][GuardedDrawOfUnloadedMesh]_vars /\ []DrawLeavesNoVertexArrayBound

\* DrawSphereMesh was called after LoadBoxMesh only: it reported the error
\* and the box's vertex array, left bound by the load, is still bound
UnloadedMeshIsNotDrawnWitness ==
    /\ lastOp.name = "DrawSphereMesh"
    /\ meshes["Sphere"] = NoMesh
    /\ meshes["Box"].vao # 0
    /\ gl.boundVAO = meshes["Box"].vao
    /\ lastDraws = <<>>
    /\ cerr = << "Error: Sphere mesh VAO or indices not properly initialized." >>

(***************************************************************************)
(* C24: once LoadSphereMesh or LoadTorusMesh has run, with any segment     *)
(* counts, every entry of the mesh's index array is in 0 .. nVertices - 1  *)
(* and nIndices is a multiple of 3; the glDrawElements(GL_TRIANGLES) call  *)
(* of DrawSphereMesh and of DrawTorusMesh reads whole triangles from the   *)
(* index array and no index of a vertex outside the vertex buffer.         *)
(***************************************************************************)
IndexedMeshInBounds(kind) ==
    /\ Len(IndexArray(kind)) = meshes[kind].nIndices
    /\ Len(VertexArray(kind)) = meshes[kind].nVertices
    /\ meshes[kind].nIndices % 3 = 0
    /\ \A n \in 1..Len(IndexArray(kind)) :
           IndexArray(kind)[n] \in 0..(meshes[kind].nVertices - 1)

ElementsRead(call) == SubSeq(gl.bufs[gl.vaos[call.vao].elemBuf], 1, call.count)

\* a draw of a mesh that was never loaded reads no index at all
TriangleDrawInBounds(kind) ==
    \A c \in 1..Len(lastDraws) :
        LET call == lastDraws[c]
        IN  /\ call.call = "glDrawElements"
            /\ call.mode = "GL_TRIANGLES"
            /\ call.vao = meshes[kind].vao
            /\ call.count % 3 = 0
            /\ IF call.vao = 0 THEN call.count = 0
               ELSE /\ call.count <= Len(IndexArray(kind))
                    /\ \A n \in 1..call.count :
                           ElementsRead(call)[n] \in 0..(Len(VertexArray(kind)) - 1)

IndicesWithinVertexBuffer ==
    /\ meshes["Sphere"].vao # 0 => IndexedMeshInBounds("Sphere")
    /\ meshes["Torus"].vao # 0 => IndexedMeshInBounds("Torus")
    /\ lastOp.name = "DrawSphereMesh" => TriangleDrawInBounds("Sphere")
    /\ lastOp.name = "DrawTorusMesh" => TriangleDrawInBounds("Torus")

\* DrawTorusMesh after LoadTorusMesh with both counts clamped to 3: 54 indices
\* into 16 vertices, the last cell reaching vertex 15
IndicesWithinVertexBufferWitness ==
    /\ lastOp.name = "DrawTorusMesh"
    /\ meshes["Torus"].nVertices = 16
    /\ meshes["Torus"].nIndices = 54
    /\ Len(lastDraws) = 1
    /\ lastDraws[1].count = 54
    /\ IndexArray("Torus")[54] = 15

(***************************************************************************)
(* C25: when DrawHalfSphereMesh has drawn, for every latitudeSegments and  *)
(* longitudeSegments the sphere was loaded with, the indices it reads are  *)
(* whole triangles, they are exactly the indices of the latitude bands     *)
(* above the equator (bands 0 .. latitudeSegments / 2 - 1, six indices per *)
(* cell), and they refer only to vertices of rows                          *)
(* 0 .. latitudeSegments / 2.                                              *)
(***************************************************************************)
\* the segment counts of the loaded sphere are the counters of its last vertex
SphereLatitudeSegments == VertexArray("Sphere")[Len(VertexArray("Sphere"))].lat
SphereLongitudeSegments == VertexArray("Sphere")[Len(VertexArray("Sphere"))].lon

UpperBandIndices ==
    SubSeq(IndexArray("Sphere"), 1,
           6 * SphereLongitudeSegments * (SphereLatitudeSegments \div 2))

HalfSphereIsUpperHemisphere ==
    (lastOp.name = "DrawHalfSphereMesh" /\ lastDraws # <<>>) =>
        LET call == lastDraws[1]
        IN  /\ call.count % 3 = 0
            /\ ElementsRead(call) = UpperBandIndices
            /\ \A n \in 1..call.count :
                   Vertex("Sphere", ElementsRead(call)[n]).lat
                       <= SphereLatitudeSegments \div 2

====
